---- MODULE Spec2Model ----
(***************************************************************************)
(* A model of the NumPy 2.0 migration analyzer (src/src/analyzer.py): the  *)
(* rule table built by NumPyMigrationAnalyzer._create_rule_map, the        *)
(* traversal of one file's syntax tree by NumPyCallVisitor, and the        *)
(* analyzer's life from its construction through analyze_directory and     *)
(* get_summary.                                                            *)
(*                                                                         *)
(* Python strings the code operates on (split, startswith, in, replace,    *)
(* concatenation) are sequences of one-character strings, so that every    *)
(* string operation is computed as Python computes it.  Values the code    *)
(* only copies (change_type, severity, ...) are plain TLA+ strings.        *)
(***************************************************************************)
EXTENDS Integers, Sequences, FiniteSets, TLC

VARIABLES
    pc,                  \* "init": rules loaded, "scan": a visitor is traversing a file;
                         \* "new", "error", "ready", "files": see the analyzer's life
    rules_file,          \* the JSON document of the rules file
    api_changes,         \* NumPyMigrationAnalyzer.api_changes: the loaded rule list
    rule_map,            \* NumPyMigrationAnalyzer.rule_map / NumPyCallVisitor.rule_map
    detected_issues,     \* NumPyMigrationAnalyzer.detected_issues
    file_imports,        \* NumPyMigrationAnalyzer.file_imports
    target,              \* the target_path of the analyze_directory call in progress
    py_files,            \* the files the loop of analyze_directory has not reached yet
    returned,            \* target of the last analyze_directory call that returned and
                         \* the list it returned, as that list is now
    summary,             \* what get_summary returned for the results at hand
    workers,             \* the threads running _analyze_file side by side, each with
                         \* its file, its visitor and the nodes it has still to visit
    file_path,           \* NumPyCallVisitor.file_path (of the visitor that ran last)
    numpy_aliases,       \* NumPyCallVisitor.numpy_aliases
    numpy_from_imports,  \* NumPyCallVisitor.numpy_from_imports
    current_imports,     \* NumPyCallVisitor.current_imports
    issues,              \* NumPyCallVisitor.issues
    todo,                \* nodes of the statement being traversed, not yet visited
    node,                \* the node the last visit_* call was given
    body_index,          \* number of module-level statements entered so far
    lineno               \* first source line of the next module-level statement

vars == <<pc, rules_file, api_changes, rule_map, detected_issues, file_imports,
          target, py_files, returned, summary, workers, file_path, numpy_aliases,
          numpy_from_imports, current_imports, issues, todo, node, body_index, lineno>>

\* the analyzer's fields and its caller's variables
session_vars == <<rules_file, detected_issues, file_imports, target, py_files,
                  returned, summary, workers>>

(***************************************************************************)
(* Bounds of the model.                                                    *)
(***************************************************************************)
\* longest rule list drawn for the rule-table specification
MaxRules == 3
\* number of module-level statements of a traversed file
MaxStmts == 2
\* number of files under a target path
MaxFiles == 2
\* number of threads analysing files side by side
MaxWorkers == 2

(***************************************************************************)
(* Python strings.                                                         *)
(***************************************************************************)
\* Python's None (no one-character string is "None")
None == <<"None">>
\* Python truthiness of an Optional[str]
Truthy(s) == s # None /\ s # <<>>

Dot == <<".">>
s_numpy == <<"n", "u", "m", "p", "y">>
s_np == <<"n", "p">>
s_npy == <<"n", "p", "y">>
s_xnumpy == <<"x">> \o s_numpy
s_os == <<"o", "s">>
s_self == <<"s", "e", "l", "f">>
s_a == <<"a">>
s_b == <<"b">>
s_c == <<"c">>
s_f == <<"f">>
s_g == <<"g">>
s_x == <<"x">>
s_star == <<"*">>
s_import == <<"i", "m", "p", "o", "r", "t">>
s_from == <<"f", "r", "o", "m">>
s_as == <<"a", "s">>
s_more == <<"m", "o", "r", "e">>
Space == <<" ">>

\* s.startswith(p)
StartsWith(s, p) == Len(s) >= Len(p) /\ SubSeq(s, 1, Len(p)) = p

\* p in s (substring test)
Contains(s, p) == \E i \in 1..(Len(s) - Len(p) + 1) : SubSeq(s, i, i + Len(p) - 1) = p

\* s[n:]
DropPrefix(s, n) == SubSeq(s, n + 1, Len(s))

\* s.split('.')
RECURSIVE Split(_)
Split(s) ==
    IF \A i \in 1..Len(s) : s[i] # "."
    THEN <<s>>
    ELSE LET i == CHOOSE j \in 1..Len(s) : s[j] = "." /\ \A k \in 1..(j - 1) : s[k] # "."
         IN <<SubSeq(s, 1, i - 1)>> \o Split(SubSeq(s, i + 1, Len(s)))

\* sep.join(parts)
RECURSIVE JoinWith(_, _)
JoinWith(sep, parts) ==
    IF parts = <<>> THEN <<>>
    ELSE IF Len(parts) = 1 THEN parts[1]
    ELSE parts[1] \o sep \o JoinWith(sep, Tail(parts))

\* s.replace(old, new): every non-overlapping occurrence, left to right
RECURSIVE Replace(_, _, _)
Replace(s, old, new) ==
    IF old = <<>>
    THEN IF s = <<>> THEN new ELSE new \o <<s[1]>> \o Replace(Tail(s), old, new)
    ELSE IF Len(s) < Len(old) THEN s
    ELSE IF SubSeq(s, 1, Len(old)) = old
         THEN new \o Replace(SubSeq(s, Len(old) + 1, Len(s)), old, new)
         ELSE <<s[1]>> \o Replace(Tail(s), old, new)

\* str(n) for a natural number
RECURSIVE IntToStr(_)
IntToStr(n) ==
    LET digit == <<"0", "1", "2", "3", "4", "5", "6", "7", "8", "9">>[(n % 10) + 1]
    IN IF n < 10 THEN <<digit>> ELSE IntToStr(n \div 10) \o <<digit>>

(***************************************************************************)
(* Dictionaries.                                                           *)
(***************************************************************************)
EmptyDict == [k \in {} |-> k]
\* d[k] = v
DictSet(d, k, v) == [x \in (DOMAIN d) \cup {k} |-> IF x = k THEN v ELSE d[x]]
\* d.get(k, default)
DictGet(d, k, default) == IF k \in DOMAIN d THEN d[k] ELSE default

(***************************************************************************)
(* The rule table.                                                         *)
(***************************************************************************)
\* the key of a rule: its api_name without a leading 'np.'
ApiKey(rule) ==
    IF StartsWith(rule.api_name, s_np \o Dot)
    THEN DropPrefix(rule.api_name, 3)
    ELSE rule.api_name

\* InsertSuffixes stopping before the last part (range(len(parts) - 1))
RECURSIVE InsertSuffixes_SkipLast(_, _, _, _)
InsertSuffixes_SkipLast(map, parts, i, rule) ==
    IF i >= Len(parts) - 1 THEN map
    ELSE LET partial_key == JoinWith(Dot, SubSeq(parts, i + 1, Len(parts)))
         IN InsertSuffixes_SkipLast(IF partial_key \notin DOMAIN map
                                    THEN DictSet(map, partial_key, rule)
                                    ELSE map,
                                    parts, i + 1, rule)

\* InsertSuffixes without the test that the key is free
RECURSIVE InsertSuffixes_Overwrite(_, _, _, _)
InsertSuffixes_Overwrite(map, parts, i, rule) ==
    IF i >= Len(parts) THEN map
    ELSE LET partial_key == JoinWith(Dot, SubSeq(parts, i + 1, Len(parts)))
         IN InsertSuffixes_Overwrite(DictSet(map, partial_key, rule), parts, i + 1, rule)

\* the loop over the parts of a dotted key: '.'.join(parts[i:]) for i = from..len(parts)-1
\* (i counts from 0 as in the code), inserted only where the key is free
RECURSIVE InsertSuffixes(_, _, _, _)
InsertSuffixes(map, parts, i, rule) ==
    IF i >= Len(parts) THEN map
    ELSE LET partial_key == JoinWith(Dot, SubSeq(parts, i + 1, Len(parts)))
         IN InsertSuffixes(IF partial_key \notin DOMAIN map
                           THEN DictSet(map, partial_key, rule)
                           ELSE map,
                           parts, i + 1, rule)

\* InsertRule entering the rule under its own key only where the key is free
InsertRule_KeepFirst(map, rule) ==
    LET api_key == ApiKey(rule)
        m1 == IF api_key \in DOMAIN map THEN map ELSE DictSet(map, api_key, rule)
    IN IF Contains(api_key, Dot)
       THEN InsertSuffixes(m1, Split(api_key), 0, rule)
       ELSE m1

\* one iteration of the loop over api_changes
InsertRule(map, rule) ==
    LET api_key == ApiKey(rule)
        m1 == DictSet(map, api_key, rule)
    IN IF Contains(api_key, Dot)
       THEN InsertSuffixes(m1, Split(api_key), 0, rule)
       ELSE m1

\* the rule map after the rules rules[1..n] have been inserted
RECURSIVE RuleMapOf(_, _)
RuleMapOf(rules, n) ==
    IF n = 0 THEN EmptyDict ELSE InsertRule(RuleMapOf(rules, n - 1), rules[n])

\* _create_rule_map: the table built from the whole rule list
CreateRuleMap(rules) == RuleMapOf(rules, Len(rules))

(***************************************************************************)
(* The rules file as json.load returns it, and what the analyzer's         *)
(* constructor makes of it.                                                *)
(***************************************************************************)
JNull == [json |-> "null"]
JNumber == [json |-> "number"]
JString(s) == [json |-> "string", value |-> s]
JArray(items) == [json |-> "array", value |-> items]
JObject(fields) == [json |-> "object", value |-> fields]

\* the elements of a set in some order
RECURSIVE SeqOfSet(_)
SeqOfSet(S) ==
    IF S = {} THEN <<>>
    ELSE LET x == CHOOSE y \in S : TRUE IN <<x>> \o SeqOfSet(S \ {x})

\* load_api_changes raises: len(changes) of a document that has no length
LoadRaises(doc) == doc.json \in {"null", "number"}

\* what "for rule in self.api_changes" iterates over: the items of a list, the keys
\* of a dict, the characters of a string
Iterated(doc) ==
    CASE doc.json = "array" -> doc.value
      [] doc.json = "object" ->
            LET keys == SeqOfSet(DOMAIN doc.value)
            IN [i \in 1..Len(keys) |-> JString(keys[i])]
      [] doc.json = "string" -> [i \in 1..Len(doc.value) |-> JString(<<doc.value[i]>>)]
      [] OTHER -> <<>>

\* one round of the loop of _create_rule_map raises: rule['api_name'] with TypeError
\* when rule is no dict and KeyError when it has no 'api_name', api_key.startswith
\* with AttributeError when the value of 'api_name' is no str (None stands for the
\* values a rules file can hold there that are no string)
RuleRaises(rule) ==
    \/ rule.json # "object"
    \/ "api_name" \notin DOMAIN rule.value
    \/ rule.value.api_name = None

\* NumPyMigrationAnalyzer.__init__ raises
InitRaises(doc) ==
    \/ LoadRaises(doc)
    \/ \E i \in 1..Len(Iterated(doc)) : RuleRaises(Iterated(doc)[i])

\* self.api_changes as _create_rule_map reads it when nothing raises
LoadedRules(doc) == [i \in 1..Len(Iterated(doc)) |-> Iterated(doc)[i].value]

(***************************************************************************)
(* Syntax trees (the nodes of Python's ast the visitor looks at).          *)
(***************************************************************************)
Name(id) == [type |-> "Name", id |-> id]
Attribute(value, attr) == [type |-> "Attribute", value |-> value, attr |-> attr]
Subscript(value) == [type |-> "Subscript", value |-> value]
Constant == [type |-> "Constant"]
Call(func, args, line, col) ==
    [type |-> "Call", func |-> func, args |-> args, lineno |-> line, col_offset |-> col]
Expr(value) == [type |-> "Expr", value |-> value]
Alias(name, asname) == [name |-> name, asname |-> asname]
Import(names, line) == [type |-> "Import", names |-> names, lineno |-> line]
ImportFrom(module, names, line) ==
    [type |-> "ImportFrom", module |-> module, names |-> names, lineno |-> line]
FunctionDef(body, decorator_list, line) ==
    [type |-> "FunctionDef", body |-> body, decorator_list |-> decorator_list, lineno |-> line]
ClassDef(body, decorator_list, line) ==
    [type |-> "ClassDef", body |-> body, decorator_list |-> decorator_list, lineno |-> line]
Module == [type |-> "Module"]
If(test, body) == [type |-> "If", test |-> test, body |-> body, orelse |-> <<>>]
Assign(targets, value) == [type |-> "Assign", targets |-> targets, value |-> value]
\* the number of terms of a sum 1+1+...+1 that ast.parse accepts and that is nested
\* deeper than the traversal can descend
DeepTerms == 1000

\* an expression nested deeper than the interpreter's recursion limit (the sum
\* 1+1+...+1 of DeepTerms terms): ast.parse accepts it, NodeVisitor.visit raises
\* RecursionError when the traversal descends into it
Deep == [type |-> "Deep"]

\* the attribute chain root.segs[1].segs[2]...
RECURSIVE Chain(_, _)
Chain(root, segs) ==
    IF segs = <<>> THEN root
    ELSE Attribute(Chain(root, SubSeq(segs, 1, Len(segs) - 1)), segs[Len(segs)])

(***************************************************************************)
(* ast.NodeVisitor: visit(n) dispatches n to its visit_<type> method when  *)
(* the visitor has one (Import, ImportFrom, Call) and to generic_visit     *)
(* otherwise; generic_visit(n) visits the children of n in the order of    *)
(* the node's fields.  Both are given as the sequence of nodes that reach  *)
(* a visit_<type> method, in the order they reach it; a Deep expression is *)
(* kept in the sequence at the place where descending into it raises.      *)
(***************************************************************************)
RECURSIVE visit(_), generic_visit(_), VisitEach(_)
visit(n) ==
    IF n.type \in {"Import", "ImportFrom", "Call", "Deep"} THEN <<n>>
    ELSE generic_visit(n)

VisitEach(ns) == IF ns = <<>> THEN <<>> ELSE visit(Head(ns)) \o VisitEach(Tail(ns))

\* field order: Call(func, args), FunctionDef(.., body, decorator_list, ..),
\* ClassDef(.., body, decorator_list)
generic_visit(n) ==
    CASE n.type = "Call" -> visit(n.func) \o VisitEach(n.args)
      [] n.type \in {"Attribute", "Subscript", "Expr"} -> visit(n.value)
      [] n.type \in {"FunctionDef", "ClassDef"} ->
            VisitEach(n.body) \o VisitEach(n.decorator_list)
      [] n.type = "If" -> visit(n.test) \o VisitEach(n.body) \o VisitEach(n.orelse)
      [] n.type = "Assign" -> VisitEach(n.targets) \o visit(n.value)
      [] OTHER -> <<>>

(***************************************************************************)
(* NumPyCallVisitor.  A visitor's fields are gathered in a record v.       *)
(***************************************************************************)
\* NewVisitor with the bindings kept in class attributes, shared by every visitor
NewVisitor_Shared(map, path) ==
    [rule_map |-> map, file_path |-> path,
     numpy_aliases |-> numpy_aliases, numpy_from_imports |-> numpy_from_imports,
     current_imports |-> <<>>, issues |-> <<>>]

\* NumPyCallVisitor.__init__
NewVisitor(map, path) ==
    [rule_map |-> map, file_path |-> path,
     numpy_aliases |-> {}, numpy_from_imports |-> EmptyDict,
     current_imports |-> <<>>, issues |-> <<>>]

\* ImportNames with shadowing: importing another module under a tracked name
\* ends the tracking of that name
RECURSIVE ImportNames_Shadowing(_, _, _)
ImportNames_Shadowing(v, n, i) ==
    IF i > Len(n.names) THEN v
    ELSE LET alias == n.names[i]
             alias_name == IF Truthy(alias.asname) THEN alias.asname ELSE alias.name
             text == s_import \o Space \o alias.name
                     \o (IF Truthy(alias.asname)
                         THEN Space \o s_as \o Space \o alias.asname ELSE <<>>)
         IN ImportNames_Shadowing(
                IF alias.name = s_numpy
                THEN [v EXCEPT !.numpy_aliases = @ \cup {alias_name},
                               !.current_imports = Append(@, <<n.lineno, text>>)]
                ELSE [v EXCEPT !.numpy_aliases = @ \ {alias_name}],
                n, i + 1)

\* ImportNames taking the submodules of numpy for numpy
RECURSIVE ImportNames_Submodules(_, _, _)
ImportNames_Submodules(v, n, i) ==
    IF i > Len(n.names) THEN v
    ELSE LET alias == n.names[i]
             alias_name == IF Truthy(alias.asname) THEN alias.asname ELSE alias.name
             text == s_import \o Space \o alias.name
                     \o (IF Truthy(alias.asname)
                         THEN Space \o s_as \o Space \o alias.asname ELSE <<>>)
         IN ImportNames_Submodules(
                IF alias.name = s_numpy \/ StartsWith(alias.name, s_numpy \o Dot)
                THEN [v EXCEPT !.numpy_aliases = @ \cup {alias_name},
                               !.current_imports = Append(@, <<n.lineno, text>>)]
                ELSE v,
                n, i + 1)

\* the loop of visit_Import over node.names[i..]
RECURSIVE ImportNames(_, _, _)
ImportNames(v, n, i) ==
    IF i > Len(n.names) THEN v
    ELSE LET alias == n.names[i]
             alias_name == IF Truthy(alias.asname) THEN alias.asname ELSE alias.name
             text == s_import \o Space \o alias.name
                     \o (IF Truthy(alias.asname)
                         THEN Space \o s_as \o Space \o alias.asname ELSE <<>>)
         IN ImportNames(
                IF alias.name = s_numpy
                THEN [v EXCEPT !.numpy_aliases = @ \cup {alias_name},
                               !.current_imports = Append(@, <<n.lineno, text>>)]
                ELSE v,
                n, i + 1)

\* visit_Import, up to its generic_visit
ImportEffect(v, n) == ImportNames(v, n, 1)

\* FromNames with "*" expanded to the names c and g of the module
RECURSIVE FromNames_ExpandStar(_, _, _)
FromNames_ExpandStar(origins, n, i) ==
    IF i > Len(n.names) THEN origins
    ELSE LET alias == n.names[i]
             o1 == IF alias.name = s_star
                   THEN DictSet(DictSet(origins, s_c, n.module), s_g, n.module)
                   ELSE DictSet(origins, alias.name, n.module)
         IN FromNames_ExpandStar(IF Truthy(alias.asname)
                                 THEN DictSet(o1, alias.asname, n.module) ELSE o1,
                                 n, i + 1)

\* FromNames recording a name imported under an alias under the alias only
RECURSIVE FromNames_AliasOnly(_, _, _)
FromNames_AliasOnly(origins, n, i) ==
    IF i > Len(n.names) THEN origins
    ELSE LET alias == n.names[i]
         IN FromNames_AliasOnly(IF Truthy(alias.asname)
                                THEN DictSet(origins, alias.asname, n.module)
                                ELSE DictSet(origins, alias.name, n.module),
                                n, i + 1)

\* the loop of visit_ImportFrom over node.names[i..]: the origins recorded
RECURSIVE FromNames(_, _, _)
FromNames(origins, n, i) ==
    IF i > Len(n.names) THEN origins
    ELSE LET alias == n.names[i]
             o1 == DictSet(origins, alias.name, n.module)
         IN FromNames(IF Truthy(alias.asname) THEN DictSet(o1, alias.asname, n.module)
                      ELSE o1,
                      n, i + 1)

\* the text visit_ImportFrom logs
ImportFromText(n) ==
    LET imported_names == [i \in 1..Len(n.names) |-> n.names[i].name]
        first3 == SubSeq(imported_names, 1, IF Len(imported_names) < 3
                                            THEN Len(imported_names) ELSE 3)
    IN s_from \o Space \o n.module \o Space \o s_import \o Space
       \o JoinWith(<<",", " ">>, first3)
       \o (IF Len(imported_names) > 3
           THEN <<".", ".", ".", " ", "(", "+">> \o IntToStr(Len(imported_names) - 3)
                \o Space \o s_more \o <<")">>
           ELSE <<>>)

\* ImportFromEffect taking the imported names for names of the module too
ImportFromEffect_NamesAsAliases(v, n) ==
    IF Truthy(n.module) /\ Contains(n.module, s_numpy)
    THEN LET parts == Split(n.module)
             module_alias == parts[Len(parts)]
         IN [v EXCEPT !.numpy_aliases =
                        @ \cup {module_alias} \cup {n.names[i].name : i \in 1..Len(n.names)},
                      !.numpy_from_imports = FromNames(@, n, 1),
                      !.current_imports = Append(@, <<n.lineno, ImportFromText(n)>>)]
    ELSE v

\* visit_ImportFrom, up to its generic_visit
ImportFromEffect(v, n) ==
    IF Truthy(n.module) /\ Contains(n.module, s_numpy)
    THEN LET parts == Split(n.module)
             module_alias == parts[Len(parts)]
         IN [v EXCEPT !.numpy_aliases = @ \cup {module_alias},
                      !.numpy_from_imports = FromNames(@, n, 1),
                      !.current_imports = Append(@, <<n.lineno, ImportFromText(n)>>)]
    ELSE v

\* _extract_attribute_chain: <<top-level alias, chain>>
RECURSIVE _extract_attribute_chain(_)
_extract_attribute_chain(n) ==
    IF n.type = "Name" THEN <<n.id, n.id>>
    ELSE IF n.type = "Attribute"
         THEN LET base == _extract_attribute_chain(n.value)
              IN IF Truthy(base[1]) /\ Truthy(base[2])
                 THEN <<base[1], base[2] \o Dot \o n.attr>>
                 ELSE <<None, <<>>>>
         ELSE <<None, <<>>>>

Unresolved == [api_name |-> None, numpy_alias_used |-> None, full_api_path |-> None]

\* ResolveAttribute with the alias test replaced by a comparison with 'np'
ResolveAttribute_OnlyNp(v, func) ==
    LET base_alias == _extract_attribute_chain(func)[1]
        attribute_chain == _extract_attribute_chain(func)[2]
    IN IF Truthy(base_alias) /\ base_alias = s_np
       THEN [api_name |-> DropPrefix(attribute_chain, Len(base_alias) + 1),
             numpy_alias_used |-> base_alias,
             full_api_path |-> attribute_chain]
       ELSE Unresolved

\* ResolveAttribute accepting a tracked alias at any place of the chain
ResolveAttribute_AnySegment(v, func) ==
    LET base_alias == _extract_attribute_chain(func)[1]
        attribute_chain == _extract_attribute_chain(func)[2]
    IN IF Truthy(base_alias)
          /\ \E i \in 1..Len(Split(attribute_chain)) :
                Split(attribute_chain)[i] \in v.numpy_aliases
       THEN [api_name |-> DropPrefix(attribute_chain, Len(base_alias) + 1),
             numpy_alias_used |-> base_alias,
             full_api_path |-> attribute_chain]
       ELSE Unresolved

\* visit_Call, case 1: the callee is an attribute access
ResolveAttribute(v, func) ==
    LET base_alias == _extract_attribute_chain(func)[1]
        attribute_chain == _extract_attribute_chain(func)[2]
    IN IF Truthy(base_alias) /\ base_alias \in v.numpy_aliases
       THEN [api_name |-> IF StartsWith(attribute_chain, base_alias \o Dot)
                          THEN DropPrefix(attribute_chain, Len(base_alias) + 1)
                          ELSE attribute_chain,
             numpy_alias_used |-> base_alias,
             full_api_path |-> attribute_chain]
       ELSE Unresolved

\* ResolveName taking a bare name that was not imported for a function of numpy
ResolveName_Unimported(v, func) ==
    LET func_name == func.id
        module_path == IF func_name \in DOMAIN v.numpy_from_imports
                       THEN v.numpy_from_imports[func_name] ELSE s_numpy
        full_api_path == module_path \o Dot \o func_name
    IN [api_name |-> IF StartsWith(full_api_path, s_numpy \o Dot)
                     THEN DropPrefix(full_api_path, 6)
                     ELSE full_api_path,
        numpy_alias_used |-> None,
        full_api_path |-> full_api_path]

\* visit_Call, case 2: the callee is a bare name
ResolveName(v, func) ==
    LET func_name == func.id
    IN IF func_name \in DOMAIN v.numpy_from_imports
       THEN LET module_path == v.numpy_from_imports[func_name]
                full_api_path == module_path \o Dot \o func_name
            IN [api_name |-> IF StartsWith(full_api_path, s_numpy \o Dot)
                             THEN DropPrefix(full_api_path, 6)
                             ELSE full_api_path,
                numpy_alias_used |-> None,
                full_api_path |-> full_api_path]
       ELSE Unresolved

\* visit_Call: api_name, numpy_alias_used and full_api_path of a call
Resolve(v, n) ==
    IF n.func.type = "Attribute" THEN ResolveAttribute(v, n.func)
    ELSE IF n.func.type = "Name" THEN ResolveName(v, n.func)
    ELSE Unresolved

\* MatchKey without the fallback to the last segment
MatchKey_ExactOnly(map, api_name) ==
    IF Truthy(api_name) /\ api_name \in DOMAIN map THEN api_name ELSE None

\* MatchKey trying the last segment before the full name
MatchKey_SimpleFirst(map, api_name) ==
    IF ~Truthy(api_name) THEN None
    ELSE LET parts == Split(api_name)
             simple_name == parts[Len(parts)]
         IN IF simple_name \in DOMAIN map THEN simple_name
            ELSE IF api_name \in DOMAIN map THEN api_name ELSE None

\* visit_Call: the key of rule_map the call is recorded under, None when it is not
MatchKey(map, api_name) ==
    IF ~Truthy(api_name) THEN None
    ELSE IF api_name \in DOMAIN map THEN api_name
    ELSE IF Contains(api_name, Dot)
         THEN LET parts == Split(api_name)
                  simple_name == parts[Len(parts)]
              IN IF simple_name \in DOMAIN map THEN simple_name ELSE None
         ELSE None

\* IssueApiName without the 'np.' put in front
IssueApiName_Bare(api_name) == api_name

\* the api_name field of an issue
IssueApiName(api_name) ==
    IF ~StartsWith(api_name, s_np \o Dot) THEN s_np \o Dot \o api_name ELSE api_name

\* the actual_call field of an issue
ActualCall(api_name, numpy_alias, full_api_path) ==
    IF Truthy(numpy_alias) /\ Truthy(full_api_path)
    THEN Replace(full_api_path, api_name, numpy_alias \o Dot \o api_name)
    ELSE IF Truthy(numpy_alias) THEN numpy_alias \o Dot \o api_name
    ELSE api_name

\* _record_issue reading the rule stored under the last segment of the matched key
_record_issue_LastSegment(v, n, api_name, numpy_alias, full_api_path) ==
    LET parts == Split(api_name)
        rule == v.rule_map[parts[Len(parts)]]
    IN [file_path |-> v.file_path,
        line |-> n.lineno,
        column |-> n.col_offset,
        api_name |-> IssueApiName(api_name),
        actual_call |-> ActualCall(api_name, numpy_alias, full_api_path),
        full_api_path |-> full_api_path,
        change_type |-> DictGet(rule, "change_type", "unknown"),
        severity |-> DictGet(rule, "severity", "medium"),
        description |-> DictGet(rule, "description", ""),
        suggestion |-> DictGet(rule, "suggestion", ""),
        since_version |-> DictGet(rule, "since_version", "2.0")]

\* _record_issue: the issue appended
_record_issue(v, n, api_name, numpy_alias, full_api_path) ==
    LET rule == v.rule_map[api_name]
    IN [file_path |-> v.file_path,
        line |-> n.lineno,
        column |-> n.col_offset,
        api_name |-> IssueApiName(api_name),
        actual_call |-> ActualCall(api_name, numpy_alias, full_api_path),
        full_api_path |-> full_api_path,
        change_type |-> DictGet(rule, "change_type", "unknown"),
        severity |-> DictGet(rule, "severity", "medium"),
        description |-> DictGet(rule, "description", ""),
        suggestion |-> DictGet(rule, "suggestion", ""),
        since_version |-> DictGet(rule, "since_version", "2.0")]

\* CallEffect remembering the rule of a hit under the full path of the call
CallEffect_Caching(v, n) ==
    LET r == Resolve(v, n)
        key == MatchKey(v.rule_map, r.api_name)
    IN IF key # None
       THEN [v EXCEPT !.issues =
                Append(@, _record_issue(v, n, key, r.numpy_alias_used, r.full_api_path)),
                      !.rule_map = DictSet(@, r.full_api_path, @[key])]
       ELSE v

\* visit_Call, up to its generic_visit
CallEffect(v, n) ==
    LET r == Resolve(v, n)
        key == MatchKey(v.rule_map, r.api_name)
    IN IF key # None
       THEN [v EXCEPT !.issues =
                Append(@, _record_issue(v, n, key, r.numpy_alias_used, r.full_api_path))]
       ELSE v

(***************************************************************************)
(* Inputs: rules and source statements.                                    *)
(***************************************************************************)
Dotted(parts) == JoinWith(Dot, parts)

rule_c ==
    [api_name |-> Dotted(<<s_np, s_c>>), change_type |-> "removed", severity |-> "high",
     description |-> "c was removed", suggestion |-> "use d", since_version |-> "2.1"]
rule_c_bare == [api_name |-> s_c, change_type |-> "deprecated", severity |-> "low"]
rule_bc == [api_name |-> Dotted(<<s_np, s_b, s_c>>), change_type |-> "deprecated"]
rule_ac == [api_name |-> Dotted(<<s_np, s_a, s_c>>), severity |-> "low"]
rule_abc ==
    [api_name |-> Dotted(<<s_np, s_a, s_b, s_c>>), change_type |-> "renamed",
     severity |-> "medium"]
rule_npf ==
    [api_name |-> Dotted(<<s_np, s_np, s_f>>), change_type |-> "renamed", severity |-> "low"]

\* the rules of the rule-table specification
RuleMenu == {rule_c, rule_c_bare, rule_bc, rule_ac, rule_abc, rule_npf}
\* the rules of the traversal specification
ScanRuleMenu == {rule_c, rule_bc, rule_npf}

\* the sequences over S of length at most n
SeqsUpTo(S, n) == UNION {[1..k -> S] : k \in 0..n}

\* the sequences without repetition over the subsets of S
Orderings(S) ==
    {q \in SeqsUpTo(S, Cardinality(S)) : \A i, j \in 1..Len(q) : i # j => q[i] # q[j]}

\* callee expressions
Callees ==
    {Chain(Name(s_np), <<s_c>>),                  \* np.c
     Chain(Name(s_npy), <<s_c>>),                 \* npy.c
     Chain(Name(s_numpy), <<s_c>>),               \* numpy.c
     Chain(Name(s_np), <<s_g>>),                  \* np.g
     Chain(Name(s_np), <<s_b, s_c>>),             \* np.b.c
     Chain(Name(s_np), <<s_a, s_b, s_c>>),        \* np.a.b.c
     Chain(Name(s_np), <<s_np, s_f>>),            \* np.np.f
     Chain(Name(s_b), <<s_c>>),                   \* b.c
     Chain(Name(s_self), <<s_np, s_c>>),          \* self.np.c
     Chain(Subscript(Name(s_np)), <<s_c>>),       \* np[0].c
     Chain(Constant, <<s_c>>),                    \* "x".c
     Chain(Name(s_numpy), <<s_b, s_c>>),          \* numpy.b.c
     Name(s_c),                                   \* c
     Name(s_g)}                                   \* g

\* call expressions at a line and column
Calls(line, col) ==
    {Call(f, <<>>, line, col) : f \in Callees}
    \cup {Call(Chain(Call(Chain(Name(s_np), <<s_c>>), <<>>, line, col), <<s_c>>),
               <<>>, line, col),                                      \* np.c().c()
          Call(Chain(Name(s_np), <<s_g>>),
               <<Call(Chain(Name(s_np), <<s_c>>), <<>>, line, col + 5)>>,
               line, col)}                                            \* np.g(np.c())

\* import statements at a line
Imports(line) ==
    {Import(<<Alias(s_numpy, None)>>, line),                          \* import numpy
     Import(<<Alias(s_numpy, s_np)>>, line),                          \* import numpy as np
     Import(<<Alias(s_numpy, s_npy)>>, line),                         \* import numpy as npy
     Import(<<Alias(s_os, None), Alias(s_numpy, s_np)>>, line),       \* import os, numpy as np
     Import(<<Alias(s_os, s_np)>>, line),                             \* import os as np
     ImportFrom(s_numpy, <<Alias(s_c, None)>>, line),                 \* from numpy import c
     ImportFrom(Dotted(<<s_numpy, s_b>>), <<Alias(s_c, None)>>, line),
                                                                      \* from numpy.b import c
     ImportFrom(Dotted(<<s_numpy, s_a, s_b>>), <<Alias(s_c, None)>>, line),
                                                                      \* from numpy.a.b import c
     ImportFrom(Dotted(<<s_numpy, s_b>>), <<Alias(s_c, s_g)>>, line),
                                                                      \* from numpy.b import c as g
     ImportFrom(s_xnumpy, <<Alias(s_c, None)>>, line),                \* from xnumpy import c
     ImportFrom(s_os, <<Alias(s_c, None)>>, line),                    \* from os import c
     ImportFrom(None, <<Alias(s_c, None)>>, line),                    \* from . import c
     ImportFrom(s_numpy, <<Alias(s_star, None)>>, line),              \* from numpy import *
     ImportFrom(Dotted(<<s_numpy, s_b>>), <<Alias(s_g, s_c)>>, line),
                                                                      \* from numpy.b import g as c
     ImportFrom(s_numpy, <<Alias(s_b, None)>>, line),                 \* from numpy import b
     Import(<<Alias(Dotted(<<s_numpy, s_b>>), None)>>, line),         \* import numpy.b
     Import(<<Alias(Dotted(<<s_numpy, s_b>>), s_np)>>, line)}         \* import numpy.b as np

\* def h(): / if x: / import os as np / np = 0 / np.c()
RebindingDef(line) ==
    <<FunctionDef(<<If(Name(s_x),
                       <<Import(<<Alias(s_os, s_np)>>, line + 2),
                         Assign(<<Name(s_np)>>, Constant),
                         Expr(Call(Chain(Name(s_np), <<s_c>>), <<>>, line + 4, 8))>>)>>,
                  <<>>, line), 5>>

\* module-level statements starting at a line, each with the number of lines it takes
Menu(line) ==
    {<<Expr(c), 1>> : c \in Calls(line, 0)}
    \cup {<<i, 1>> : i \in Imports(line)}
    \cup {\* @np.c() / def h(): / import numpy as np
          <<FunctionDef(<<Import(<<Alias(s_numpy, s_np)>>, line + 2)>>,
                        <<Call(Chain(Name(s_np), <<s_c>>), <<>>, line, 1)>>, line + 1), 3>>,
          \* @c() / class h: / from numpy.b import c
          <<ClassDef(<<ImportFrom(Dotted(<<s_numpy, s_b>>), <<Alias(s_c, None)>>, line + 2)>>,
                     <<Call(Name(s_c), <<>>, line, 1)>>, line + 1), 3>>,
          \* def h(): / np.c() / np.b.c()
          <<FunctionDef(<<Expr(Call(Chain(Name(s_np), <<s_c>>), <<>>, line + 1, 4)),
                          Expr(Call(Chain(Name(s_np), <<s_b, s_c>>), <<>>, line + 2, 4))>>,
                        <<>>, line), 3>>,
          \* @np.c() / def h(): / np.b.c()
          <<FunctionDef(<<Expr(Call(Chain(Name(s_np), <<s_b, s_c>>), <<>>, line + 2, 4))>>,
                        <<Call(Chain(Name(s_np), <<s_c>>), <<>>, line, 1)>>, line + 1), 3>>,
          RebindingDef(line)}

(***************************************************************************)
(* Source files, targets and the analysis of one file.                     *)
(***************************************************************************)
\* a .py file: its path, the lines of its text, whether ast.parse accepts the text,
\* and the module body
SourceFile(path, text, parses, body) ==
    [path |-> path, text |-> text, parses |-> parses, body |-> body]

\* import numpy as np / np.c() / np.b.c()
file_a ==
    SourceFile("a.py", <<"import numpy as np", "np.c()", "np.b.c()">>, TRUE,
               <<Import(<<Alias(s_numpy, s_np)>>, 1),
                 Expr(Call(Chain(Name(s_np), <<s_c>>), <<>>, 2, 0)),
                 Expr(Call(Chain(Name(s_np), <<s_b, s_c>>), <<>>, 3, 0))>>)
\* np.c() / c()
file_b ==
    SourceFile("b.py", <<"np.c()", "c()">>, TRUE,
               <<Expr(Call(Chain(Name(s_np), <<s_c>>), <<>>, 1, 0)),
                 Expr(Call(Name(s_c), <<>>, 2, 0))>>)
\* from numpy.b import c / c()
file_c ==
    SourceFile("c.py", <<"from numpy.b import c", "c()">>, TRUE,
               <<ImportFrom(Dotted(<<s_numpy, s_b>>), <<Alias(s_c, None)>>, 1),
                 Expr(Call(Name(s_c), <<>>, 2, 0))>>)
\* a file ast.parse rejects with SyntaxError
file_d == SourceFile("d.py", <<"def (:">>, FALSE, <<>>)
\* the text s written n times
RECURSIVE Repeat(_, _)
Repeat(s, n) ==
    IF n = 0 THEN ""
    ELSE LET half == Repeat(s, n \div 2)
         IN IF n % 2 = 1 THEN half \o half \o s ELSE half \o half

\* import numpy as np / np.c() / x = 1+1+...+1, the sum having DeepTerms terms
file_e ==
    SourceFile("e.py",
               <<"import numpy as np", "np.c()", "x = 1" \o Repeat("+1", DeepTerms - 1)>>,
               TRUE,
               <<Import(<<Alias(s_numpy, s_np)>>, 1),
                 Expr(Call(Chain(Name(s_np), <<s_c>>), <<>>, 2, 0)),
                 Assign(<<Name(s_x)>>, Deep)>>)

SourceFiles == {file_a, file_b, file_c, file_d, file_e}

\* a target path that does not exist
Missing == [exists |-> FALSE, files |-> <<>>]
\* an existing target and the .py files find_py_files discovers under it, in order
Directory(files) == [exists |-> TRUE, files |-> files]

Targets ==
    {Missing}
    \cup {Directory(q) : q \in {r \in SeqsUpTo(SourceFiles, MaxFiles) :
                                   \A i, j \in 1..Len(r) : i # j => r[i] # r[j]}}

\* find_py_files
find_py_files(t) == t.files

\* list.clear keeping the elements
clear_Keep(list) == list

\* list.clear
clear(list) == <<>>

\* the effect of the visit_<type> method node n is dispatched to
VisitEffect(v, n) ==
    CASE n.type = "Import" -> ImportEffect(v, n)
      [] n.type = "ImportFrom" -> ImportFromEffect(v, n)
      [] n.type = "Call" -> CallEffect(v, n)

\* visitor.visit(tree): the traversal of the nodes still to visit, from a visitor v,
\* until they are exhausted or one of them raises
RECURSIVE Traverse(_, _)
Traverse(v, nodes) ==
    IF nodes = <<>> THEN [visitor |-> v, raised |-> FALSE]
    ELSE LET n == Head(nodes)
         IN IF n.type = "Deep" THEN [visitor |-> v, raised |-> TRUE]
            ELSE Traverse(VisitEffect(v, n), generic_visit(n) \o Tail(nodes))

\* _analyze_file with no "except SyntaxError": the error of ast.parse leaves it
_analyze_file_Uncaught(map, file) ==
    LET t == Traverse(NewVisitor(map, file.path), VisitEach(file.body))
    IN [raises |-> ~file.parses,
        issues |-> IF t.raised THEN <<>> ELSE t.visitor.issues,
        imports |-> IF t.raised THEN <<>> ELSE t.visitor.current_imports,
        created |-> file.parses, visitor |-> t.visitor]

\* _analyze_file: whether an exception leaves it (both except clauses return), what
\* it returns, whether it created a visitor, and that visitor as the traversal left it
_analyze_file(map, file) ==
    IF ~file.parses
    THEN [raises |-> FALSE, issues |-> <<>>, imports |-> <<>>, created |-> FALSE,
          visitor |-> NewVisitor(map, file.path)]
    ELSE LET t == Traverse(NewVisitor(map, file.path), VisitEach(file.body))
         IN IF t.raised
            THEN [raises |-> FALSE, issues |-> <<>>, imports |-> <<>>, created |-> TRUE,
                  visitor |-> t.visitor]
            ELSE [raises |-> FALSE, issues |-> t.visitor.issues,
                  imports |-> t.visitor.current_imports,
                  created |-> TRUE, visitor |-> t.visitor]

\* Summary setting a count to 1 at every issue instead of adding 1 to it
Summary_CountOnce(found, imports) ==
    LET by(field) == [x \in {found[i][field] : i \in 1..Len(found)} |-> 1]
    IN [total_files_analyzed |-> Cardinality(DOMAIN imports),
        total_issues |-> Len(found),
        issues_by_type |-> by("change_type"),
        issues_by_severity |-> by("severity"),
        files_with_issues |-> {found[i].file_path : i \in 1..Len(found)}]

\* get_summary
Summary(found, imports) ==
    LET by(field) ==
            [x \in {found[i][field] : i \in 1..Len(found)} |->
                Cardinality({i \in 1..Len(found) : found[i][field] = x})]
    IN [total_files_analyzed |-> Cardinality(DOMAIN imports),
        total_issues |-> Len(found),
        issues_by_type |-> by("change_type"),
        issues_by_severity |-> by("severity"),
        files_with_issues |-> {found[i].file_path : i \in 1..Len(found)}]

\* no analyze_directory call has returned yet
NoCall == [called |-> FALSE, target |-> Missing, issues |-> <<>>]
\* get_summary has not been called for the results at hand
NoSummary == [taken |-> FALSE]

\* rules files: two well-formed lists, then documents that are no list of records
\* each having 'api_name', and a list with a record whose 'api_name' is null
RulesFiles ==
    {JArray(<<JObject(rule_c), JObject(rule_bc)>>),
     JArray(<<>>),
     JObject(EmptyDict),
     JNull,
     JNumber,
     JString(s_c),
     JObject(rule_c),
     JArray(<<JObject(rule_c), JObject([change_type |-> "removed"])>>),
     JArray(<<JObject(rule_c), JString(Dotted(<<s_np, s_c>>))>>),
     JArray(<<JNull>>),
     JArray(<<JObject(rule_c), JObject([api_name |-> None, severity |-> "low"])>>)}

(***************************************************************************)
(* The state machine.                                                      *)
(***************************************************************************)
\* the visitor's fields as a record
Visitor ==
    [rule_map |-> rule_map, file_path |-> file_path,
     numpy_aliases |-> numpy_aliases, numpy_from_imports |-> numpy_from_imports,
     current_imports |-> current_imports, issues |-> issues]

\* the path of the file whose traversal is followed node by node
StreamPath == "m.py"

\* NumPyMigrationAnalyzer.__init__ after _load_rules, nothing analysed yet
InitWith(lists) ==
    /\ pc = "init"
    /\ api_changes \in lists
    /\ rules_file = JArray([i \in 1..Len(api_changes) |-> JObject(api_changes[i])])
    /\ rule_map = EmptyDict
    /\ detected_issues = <<>>
    /\ file_imports = EmptyDict
    /\ target = Missing
    /\ py_files = <<>>
    /\ returned = NoCall
    /\ summary = NoSummary
    /\ workers = <<>>
    /\ file_path = ""
    /\ numpy_aliases = {}
    /\ numpy_from_imports = EmptyDict
    /\ current_imports = <<>>
    /\ issues = <<>>
    /\ todo = <<>>
    /\ node = Module
    /\ body_index = 0
    /\ lineno = 1

\* the traversal is checked under every ordering of every subset of ScanRuleMenu
Init == InitWith(Orderings(ScanRuleMenu))

InitRules == InitWith(SeqsUpTo(RuleMenu, MaxRules))

\* _create_rule_map, then _analyze_file creates a visitor and starts visitor.visit(tree)
create_rule_map ==
    /\ pc = "init"
    /\ pc' = "scan"
    /\ rule_map' = CreateRuleMap(api_changes)
    /\ LET v == NewVisitor(rule_map', StreamPath)
       IN /\ file_path' = v.file_path
          /\ numpy_aliases' = v.numpy_aliases
          /\ numpy_from_imports' = v.numpy_from_imports
          /\ current_imports' = v.current_imports
          /\ issues' = v.issues
    /\ UNCHANGED <<api_changes, todo, node, body_index, lineno>>
    /\ UNCHANGED session_vars

\* what the traversal visits next: the rest of the statement it is in or, when that
\* is exhausted, the next statement of the module body
Upcoming ==
    IF todo # <<>>
    THEN {[nodes |-> todo, body_index |-> body_index, lineno |-> lineno]}
    ELSE IF body_index < MaxStmts
         THEN {[nodes |-> visit(s[1]), body_index |-> body_index + 1,
                lineno |-> lineno + s[2]] : s \in Menu(lineno)}
         ELSE {}

\* the traversal hands node n, the first of u.nodes, to a visit_* method, which
\* leaves the visitor's fields as in v and ends with generic_visit(n)
Visited(u, n, v) ==
    /\ node' = n
    /\ rule_map' = v.rule_map
    /\ file_path' = v.file_path
    /\ numpy_aliases' = v.numpy_aliases
    /\ numpy_from_imports' = v.numpy_from_imports
    /\ current_imports' = v.current_imports
    /\ issues' = v.issues
    /\ todo' = generic_visit(n) \o Tail(u.nodes)
    /\ body_index' = u.body_index
    /\ lineno' = u.lineno
    /\ UNCHANGED <<pc, api_changes>>
    /\ UNCHANGED session_vars

visit_Import ==
    /\ pc = "scan"
    /\ \E u \in Upcoming :
          /\ Head(u.nodes).type = "Import"
          /\ Visited(u, Head(u.nodes), ImportEffect(Visitor, Head(u.nodes)))

visit_ImportFrom ==
    /\ pc = "scan"
    /\ \E u \in Upcoming :
          /\ Head(u.nodes).type = "ImportFrom"
          /\ Visited(u, Head(u.nodes), ImportFromEffect(Visitor, Head(u.nodes)))

visit_Call ==
    /\ pc = "scan"
    /\ \E u \in Upcoming :
          /\ Head(u.nodes).type = "Call"
          /\ Visited(u, Head(u.nodes), CallEffect(Visitor, Head(u.nodes)))

Next == create_rule_map \/ visit_Import \/ visit_ImportFrom \/ visit_Call

Spec == Init /\ [][Next]_vars

\* the rule table alone, built from every rule list up to MaxRules
SpecRules == InitRules /\ [][create_rule_map]_vars

(***************************************************************************)
(* The analyzer's life: construction from a rules file, then calls of      *)
(* analyze_directory, whose loop over the discovered files is followed     *)
(* file by file, and of get_summary.                                       *)
(***************************************************************************)
visitor_vars == <<file_path, numpy_aliases, numpy_from_imports, current_imports, issues>>
stream_vars == <<todo, node, body_index, lineno, workers>>

\* before NumPyMigrationAnalyzer(rules_path)
InitSession ==
    /\ pc = "new"
    /\ rules_file \in RulesFiles
    /\ api_changes = <<>>
    /\ rule_map = EmptyDict
    /\ detected_issues = <<>>
    /\ file_imports = EmptyDict
    /\ target = Missing
    /\ py_files = <<>>
    /\ returned = NoCall
    /\ summary = NoSummary
    /\ workers = <<>>
    /\ file_path = ""
    /\ numpy_aliases = {}
    /\ numpy_from_imports = EmptyDict
    /\ current_imports = <<>>
    /\ issues = <<>>
    /\ todo = <<>>
    /\ node = Module
    /\ body_index = 0
    /\ lineno = 1

\* NumPyMigrationAnalyzer.__init__: an exception leaves no analyzer ("error")
NumPyMigrationAnalyzer__init__ ==
    /\ pc = "new"
    /\ IF InitRaises(rules_file)
       THEN /\ pc' = "error"
            /\ UNCHANGED <<api_changes, rule_map>>
       ELSE /\ pc' = "ready"
            /\ api_changes' = LoadedRules(rules_file)
            /\ rule_map' = CreateRuleMap(api_changes')
    /\ UNCHANGED <<rules_file, detected_issues, file_imports, target, py_files,
                   returned, summary>>
    /\ UNCHANGED <<visitor_vars, stream_vars>>

\* the list the last call returned is self.detected_issues itself (a missing target
\* returns a new empty list)
ReturnedIsStored == returned.called /\ returned.target.exists

\* the caller's view of the returned list once self.detected_issues holds found
Aliasing(found) == IF ReturnedIsStored THEN [returned EXCEPT !.issues = found] ELSE returned

\* analyze_directory clearing the stored results before it looks at the target
analyze_directory_ClearFirst ==
    /\ pc = "ready"
    /\ \E t \in Targets :
          /\ target' = t
          /\ detected_issues' = clear(detected_issues)
          /\ file_imports' = EmptyDict
          /\ IF ~t.exists
             THEN /\ returned' = [called |-> TRUE, target |-> t, issues |-> <<>>]
                  /\ UNCHANGED <<pc, py_files>>
             ELSE /\ pc' = "files"
                  /\ py_files' = find_py_files(t)
                  /\ returned' = Aliasing(detected_issues')
    /\ summary' = NoSummary
    /\ UNCHANGED <<rules_file, api_changes, rule_map>>
    /\ UNCHANGED <<visitor_vars, stream_vars>>

\* analyze_directory up to its loop: a missing target returns [] at once; for an
\* existing one the stored list is cleared in place, and with it the list a caller
\* holds from the call before
analyze_directory ==
    /\ pc = "ready"
    /\ \E t \in Targets :
          /\ target' = t
          /\ IF ~t.exists
             THEN /\ returned' = [called |-> TRUE, target |-> t, issues |-> <<>>]
                  /\ UNCHANGED <<pc, detected_issues, file_imports, py_files>>
             ELSE /\ pc' = "files"
                  /\ detected_issues' = clear(detected_issues)
                  /\ file_imports' = EmptyDict
                  /\ py_files' = find_py_files(t)
                  /\ returned' = Aliasing(detected_issues')
    /\ summary' = NoSummary
    /\ UNCHANGED <<rules_file, api_changes, rule_map>>
    /\ UNCHANGED <<visitor_vars, stream_vars>>

\* one round of the loop of analyze_directory: _analyze_file on the next file, whose
\* issues extend the stored list in place, and with it the list a caller holds from
\* the call before; an exception leaving _analyze_file would leave analyze_directory
\* too
analyze_file ==
    /\ pc = "files"
    /\ py_files # <<>>
    /\ LET file == Head(py_files)
           r == _analyze_file(rule_map, file)
       IN /\ IF r.raises
             THEN /\ pc' = "ready"
                  /\ py_files' = <<>>
                  /\ UNCHANGED <<detected_issues, file_imports>>
             ELSE /\ detected_issues' = detected_issues \o r.issues
                  /\ file_imports' = IF r.imports # <<>>
                                     THEN DictSet(file_imports, file.path, r.imports)
                                     ELSE file_imports
                  /\ py_files' = Tail(py_files)
                  /\ UNCHANGED pc
          /\ IF r.created
             THEN /\ rule_map' = r.visitor.rule_map
                  /\ file_path' = r.visitor.file_path
                  /\ numpy_aliases' = r.visitor.numpy_aliases
                  /\ numpy_from_imports' = r.visitor.numpy_from_imports
                  /\ current_imports' = r.visitor.current_imports
                  /\ issues' = r.visitor.issues
             ELSE UNCHANGED <<rule_map, visitor_vars>>
    /\ returned' = Aliasing(detected_issues')
    /\ UNCHANGED <<rules_file, api_changes, target, summary>>
    /\ UNCHANGED stream_vars

\* the end of analyze_directory: it returns self.detected_issues
analyze_directory_return ==
    /\ pc = "files"
    /\ py_files = <<>>
    /\ pc' = "ready"
    /\ returned' = [called |-> TRUE, target |-> target, issues |-> detected_issues]
    /\ UNCHANGED <<rules_file, api_changes, rule_map, detected_issues, file_imports,
                   target, py_files, summary>>
    /\ UNCHANGED <<visitor_vars, stream_vars>>

get_summary ==
    /\ pc = "ready"
    /\ summary = NoSummary
    /\ summary' = [taken |-> TRUE, value |-> Summary(detected_issues, file_imports)]
    /\ UNCHANGED <<pc, rules_file, api_changes, rule_map, detected_issues, file_imports,
                   target, py_files, returned>>
    /\ UNCHANGED <<visitor_vars, stream_vars>>

\* the lines of the file at a path, as readlines gives them without their line ends
ReadLines(path) == (CHOOSE file \in SourceFiles : file.path = path).text

Max(a, b) == IF a > b THEN a ELSE b
Min(a, b) == IF a < b THEN a ELSE b

\* BaseReporter._extract_code_snippet: the issue's line with context_lines lines
\* before and after it; of the message of a failure, 'error' keeps what it is made
\* from
_extract_code_snippet(path, line_number, context_lines) ==
    IF \A file \in SourceFiles : file.path # path
    THEN [success |-> FALSE, error |-> <<"read", path>>]
    ELSE LET lines == ReadLines(path)
             line_index == line_number - 1
             start_line == Max(0, line_index - context_lines)
             end_line == Min(Len(lines), line_index + context_lines + 1)
             issue_line_in_snippet == line_index - start_line
         IN IF line_index < 0 \/ line_index >= Len(lines)
            THEN [success |-> FALSE, error |-> <<"range", line_number, Len(lines)>>]
            ELSE [success |-> TRUE,
                  file_path |-> path,
                  issue_line |-> line_number,
                  context_lines |-> context_lines,
                  snippet |-> [i \in 1..(end_line - start_line) |->
                                 [line_number |-> start_line + i,
                                  content |-> lines[start_line + i],
                                  is_issue_line |-> (i - 1 = issue_line_in_snippet)]],
                  issue_line_index |-> issue_line_in_snippet,
                  start_line |-> start_line + 1,
                  end_line |-> end_line]

\* BaseReporter.prepare_report_data, as far as it writes to the issues it is given:
\* every issue gets its 'code_snippet'
prepare_report_data(found) ==
    [i \in 1..Len(found) |->
        DictSet(found[i], "code_snippet",
                _extract_code_snippet(found[i].file_path, found[i].line, 2))]

\* the formats of ReportManager.generate_report
Formats == {"markdown", "html", "both"}

\* cli.main after get_summary: ReportManager.generate_report is given the list
\* analyze_directory returned, which for an existing target is self.detected_issues
\* itself, and each reporter it runs calls prepare_report_data on that list (the
\* documents it writes are not part of the state)
generate_report ==
    /\ pc = "ready"
    /\ returned.called
    /\ summary.taken
    /\ \E verbose \in BOOLEAN : returned.issues # <<>> \/ verbose
    /\ \E format \in Formats :
          IF returned.target.exists
          THEN /\ detected_issues' = prepare_report_data(detected_issues)
               /\ returned' = [returned EXCEPT !.issues = detected_issues']
          ELSE UNCHANGED <<detected_issues, returned>>
    /\ UNCHANGED <<pc, rules_file, api_changes, rule_map, file_imports, target, py_files,
                   summary>>
    /\ UNCHANGED <<visitor_vars, stream_vars>>

NextSession ==
    \/ NumPyMigrationAnalyzer__init__
    \/ analyze_directory
    \/ analyze_file
    \/ analyze_directory_return
    \/ get_summary
    \/ generate_report

SpecSession == InitSession /\ [][NextSession]_vars

(***************************************************************************)
(* _analyze_file called from several threads of one analyzer, each on a    *)
(* file of its own: a thread opens and parses its file and creates its     *)
(* visitor, then visits node after node, then returns; the steps of the    *)
(* threads interleave.                                                     *)
(***************************************************************************)
\* a thread that has not called _analyze_file yet
Idle == [state |-> "idle"]

\* the thread is in visitor.visit(tree)
Running(file, v, nodes) == [state |-> "running", file |-> file, visitor |-> v, todo |-> nodes]

\* _analyze_file has returned to the thread
Done(file, found, imports) ==
    [state |-> "done", file |-> file, issues |-> found, imports |-> imports]

\* the files other threads have taken
Taken(w) == {workers[u].file : u \in {x \in DOMAIN workers : x # w /\ workers[x].state # "idle"}}

InitWorkers ==
    /\ pc = "workers"
    /\ api_changes = <<rule_c, rule_bc>>
    /\ rules_file = JArray([i \in 1..Len(api_changes) |-> JObject(api_changes[i])])
    /\ rule_map = CreateRuleMap(api_changes)
    /\ detected_issues = <<>>
    /\ file_imports = EmptyDict
    /\ target = Missing
    /\ py_files = <<>>
    /\ returned = NoCall
    /\ summary = NoSummary
    /\ workers = [w \in 1..MaxWorkers |-> Idle]
    /\ file_path = ""
    /\ numpy_aliases = {}
    /\ numpy_from_imports = EmptyDict
    /\ current_imports = <<>>
    /\ issues = <<>>
    /\ todo = <<>>
    /\ node = Module
    /\ body_index = 0
    /\ lineno = 1

\* the visitor v is the one that ran last
Ran(v) ==
    /\ rule_map' = v.rule_map
    /\ file_path' = v.file_path
    /\ numpy_aliases' = v.numpy_aliases
    /\ numpy_from_imports' = v.numpy_from_imports
    /\ current_imports' = v.current_imports
    /\ issues' = v.issues

unthreaded_vars == <<pc, rules_file, api_changes, detected_issues, file_imports, target,
                     py_files, returned, summary, todo, node, body_index, lineno>>

\* _analyze_file up to visitor.visit(tree): a SyntaxError makes it return at once
_analyze_file_parse(w) ==
    /\ pc = "workers"
    /\ workers[w].state = "idle"
    /\ \E file \in SourceFiles \ Taken(w) :
          IF ~file.parses
          THEN /\ workers' = [workers EXCEPT ![w] = Done(file, <<>>, <<>>)]
               /\ UNCHANGED <<rule_map, visitor_vars>>
          ELSE LET v == NewVisitor(rule_map, file.path)
               IN /\ workers' = [workers EXCEPT ![w] = Running(file, v, VisitEach(file.body))]
                  /\ Ran(v)
    /\ UNCHANGED unthreaded_vars

\* one visit_* call of the thread's traversal; an exception ends _analyze_file
_analyze_file_visit(w) ==
    /\ pc = "workers"
    /\ workers[w].state = "running"
    /\ workers[w].todo # <<>>
    /\ LET n == Head(workers[w].todo)
           v == workers[w].visitor
       IN IF n.type = "Deep"
          THEN /\ workers' = [workers EXCEPT ![w] = Done(@.file, <<>>, <<>>)]
               /\ UNCHANGED <<rule_map, visitor_vars>>
          ELSE /\ workers' = [workers EXCEPT ![w] =
                                 Running(@.file, VisitEffect(v, n),
                                         generic_visit(n) \o Tail(@.todo))]
               /\ Ran(VisitEffect(v, n))
    /\ UNCHANGED unthreaded_vars

\* the traversal is complete: _analyze_file returns the visitor's issues and imports
_analyze_file_return(w) ==
    /\ pc = "workers"
    /\ workers[w].state = "running"
    /\ workers[w].todo = <<>>
    /\ workers' = [workers EXCEPT ![w] =
                      Done(@.file, @.visitor.issues, @.visitor.current_imports)]
    /\ UNCHANGED <<rule_map, visitor_vars>>
    /\ UNCHANGED unthreaded_vars

NextWorkers ==
    \E w \in 1..MaxWorkers :
       \/ _analyze_file_parse(w)
       \/ _analyze_file_visit(w)
       \/ _analyze_file_return(w)

SpecWorkers == InitWorkers /\ [][NextWorkers]_vars

(***************************************************************************)
(* Vocabulary of the properties.  In a step of the traversal (pc = "scan") *)
(* node' is the node visited, the unprimed variables are the visitor       *)
(* before the visit and the primed ones the visitor after it.              *)
(***************************************************************************)
Last(q) == q[Len(q)]

\* e is a chain of attribute accesses on a bare identifier
RECURSIVE IsNameChain(_)
IsNameChain(e) == e.type = "Name" \/ (e.type = "Attribute" /\ IsNameChain(e.value))

\* the identifier a chain starts from, and the attribute names that follow it
RECURSIVE ChainRoot(_)
ChainRoot(e) == IF e.type = "Name" THEN e.id ELSE ChainRoot(e.value)

RECURSIVE ChainAttrs(_)
ChainAttrs(e) == IF e.type = "Name" THEN <<>> ELSE Append(ChainAttrs(e.value), e.attr)

\* the right-aligned suffixes of a dotted name, the name itself included
Suffixes(name) ==
    LET parts == Split(name)
    IN {Dotted(SubSeq(parts, k, Len(parts))) : k \in 1..Len(parts)}

\* the suffixes of a dotted name that are shorter than the name
ProperSuffixes(name) == Suffixes(name) \ {name}

\* the longest element of a non-empty set of strings of different lengths
Longest(S) == CHOOSE x \in S : \A y \in S : Len(y) <= Len(x)

\* what `import numpy` / `import numpy as X` logs when it binds the local name X
PlainImportTexts(X) ==
    {s_import \o Space \o s_numpy \o Space \o s_as \o Space \o X}
    \cup (IF X = s_numpy THEN {s_import \o Space \o s_numpy} ELSE {})

\* the visitor has visited `import numpy` or `import numpy as X` binding X
ImportedAs(X) ==
    \E i \in 1..Len(current_imports) : current_imports[i][2] \in PlainImportTexts(X)

\* the step visits a call and records exactly one issue, located at the call
OneFinding ==
    /\ Len(issues') = Len(issues) + 1
    /\ SubSeq(issues', 1, Len(issues)) = issues
    /\ Last(issues').line = node'.lineno
    /\ Last(issues').column = node'.col_offset

\* the step visits the call of an attribute chain on a bare identifier
AliasCallStep ==
    /\ pc = "scan"
    /\ node'.type = "Call"
    /\ node'.func.type = "Attribute"
    /\ IsNameChain(node'.func)

\* the step visits the call of a bare identifier
NameCallStep == pc = "scan" /\ node'.type = "Call" /\ node'.func.type = "Name"

\* an issue carries the fields of a rule
CarriesRule(issue, rule) ==
    /\ issue.change_type = DictGet(rule, "change_type", "unknown")
    /\ issue.severity = DictGet(rule, "severity", "medium")
    /\ issue.description = DictGet(rule, "description", "")
    /\ issue.suggestion = DictGet(rule, "suggestion", "")
    /\ issue.since_version = DictGet(rule, "since_version", "2.0")

(***************************************************************************)
(* C1                                                                      *)
(***************************************************************************)
\* C1: in a file that has imported numpy under a local name X (import numpy,
\* import numpy as X, visited before the call), a call X.f() records exactly one
\* issue when f is a key of the rule table and none when neither f nor any suffix
\* of f is a key, whichever spelling X has.
C1_AliasCallFinding ==
    [][(AliasCallStep /\ ImportedAs(ChainRoot(node'.func)))
         => LET f == Dotted(ChainAttrs(node'.func))
            IN /\ f \in DOMAIN rule_map => OneFinding
               /\ Suffixes(f) \cap DOMAIN rule_map = {} => issues' = issues]_vars

\* npy.c() inside a file that imported numpy as npy was recorded, c being a key
C1_Witness ==
    /\ pc = "scan"
    /\ node.type = "Call"
    /\ node.func = Chain(Name(s_npy), <<s_c>>)
    /\ ImportedAs(s_npy)
    /\ s_c \in DOMAIN rule_map
    /\ issues # <<>>
    /\ Last(issues).line = node.lineno
    /\ Last(issues).full_api_path = Dotted(<<s_npy, s_c>>)

(***************************************************************************)
(* C2                                                                      *)
(***************************************************************************)
\* an issue's api_name names the key: the key behind 'np.', or the key itself
\* when the key begins with 'np.'
NamesKey(issue, key) ==
    issue.api_name = (IF StartsWith(key, s_np \o Dot) THEN key ELSE s_np \o Dot \o key)

\* C2 as claimed: the api_name of every issue is the matched key of the rule
\* table, without the library prefix ("geterrobj" for np.geterrobj()).
C2_ApiNameIsKey ==
    \A i \in 1..Len(issues) :
        /\ issues[i].api_name \in DOMAIN rule_map
        /\ issues[i].api_name \in Suffixes(issues[i].full_api_path)

\* C2 amended: the api_name of every issue is the matched key of the rule table
\* with 'np.' put in front of it, the key itself when it already begins with
\* 'np.' ("np.geterrobj" for np.geterrobj()); the matched key is a suffix of the
\* path of the call and the issue carries the rule stored under it.
C2_ApiNamePrefixed ==
    \A i \in 1..Len(issues) :
        \E key \in DOMAIN rule_map :
            /\ key \in Suffixes(issues[i].full_api_path)
            /\ NamesKey(issues[i], key)
            /\ CarriesRule(issues[i], rule_map[key])

\* np.c() was recorded as "np.c" and np.np.f() as "np.f"
C2_Witness ==
    /\ \E i \in 1..Len(issues) :
          /\ issues[i].full_api_path = Dotted(<<s_np, s_c>>)
          /\ issues[i].api_name = Dotted(<<s_np, s_c>>)
    /\ \E i \in 1..Len(issues) :
          /\ issues[i].full_api_path = Dotted(<<s_np, s_np, s_f>>)
          /\ issues[i].api_name = Dotted(<<s_np, s_f>>)

(***************************************************************************)
(* C3                                                                      *)
(***************************************************************************)
\* module path m is the numpy package or one of its submodules
IsNumpyModule(m) == m = s_numpy \/ StartsWith(m, s_numpy \o Dot)

\* the callee's root name was bound by an import of the numpy package:
\* import numpy [as X], or from numpy[.sub] import X [as X]
BoundToNumpy(func) ==
    LET X == ChainRoot(func)
    IN /\ IsNameChain(func)
       /\ \/ func.type = "Attribute" /\ ImportedAs(X)
          \/ /\ X \in DOMAIN numpy_from_imports
             /\ IsNumpyModule(numpy_from_imports[X])

\* C3: an issue is recorded only for a call whose root name was bound by an
\* import of the numpy package itself.
C3_OnlyLibraryCalls ==
    [][(pc = "scan" /\ Len(issues') > Len(issues)) => BoundToNumpy(node'.func)]_vars

(***************************************************************************)
(* C4                                                                      *)
(***************************************************************************)
\* C4: after `from numpy.sub import fn`, a call fn() has the full path
\* numpy.sub.fn and records exactly one issue if sub.fn or fn is a key of the rule
\* table, under the key sub.fn when that is a key, and no issue otherwise.
C4_FromImportCall ==
    [][(/\ NameCallStep
        /\ node'.func.id \in DOMAIN numpy_from_imports
        /\ StartsWith(numpy_from_imports[node'.func.id], s_numpy \o Dot))
         => LET fn == node'.func.id
                module == numpy_from_imports[fn]
                sub_fn == DropPrefix(module, 6) \o Dot \o fn
            IN IF sub_fn \in DOMAIN rule_map \/ fn \in DOMAIN rule_map
               THEN /\ OneFinding
                    /\ Last(issues').full_api_path = module \o Dot \o fn
                    /\ sub_fn \in DOMAIN rule_map
                          => /\ NamesKey(Last(issues'), sub_fn)
                             /\ CarriesRule(Last(issues'), rule_map[sub_fn])
               ELSE issues' = issues]_vars

\* c() after `from numpy.a.b import c` was recorded through the key c, a.b.c
\* not being a key
C4_Witness ==
    /\ pc = "scan"
    /\ node.type = "Call"
    /\ node.func = Name(s_c)
    /\ issues # <<>>
    /\ Last(issues).line = node.lineno
    /\ Last(issues).full_api_path = Dotted(<<s_numpy, s_a, s_b, s_c>>)
    /\ Dotted(<<s_a, s_b, s_c>>) \notin DOMAIN rule_map

(***************************************************************************)
(* C5                                                                      *)
(***************************************************************************)
\* C5: when the resolved name of a call is not a key, the issue carries the rule
\* of the longest suffix of the name that is a key.
C5_LongestSuffix ==
    [][(/\ pc = "scan"
        /\ node'.type = "Call"
        /\ Truthy(Resolve(Visitor, node').api_name)
        /\ Resolve(Visitor, node').api_name \notin DOMAIN rule_map
        /\ Suffixes(Resolve(Visitor, node').api_name) \cap DOMAIN rule_map # {})
         => /\ OneFinding
            /\ CarriesRule(Last(issues'),
                   rule_map[Longest(Suffixes(Resolve(Visitor, node').api_name)
                                    \cap DOMAIN rule_map)])]_vars

(***************************************************************************)
(* C6                                                                      *)
(***************************************************************************)
\* C6: when the resolved name of a call is a key, the issue recorded is built from
\* the rule stored under that key; a call records at most one issue.
C6_ExactFirst ==
    [][(pc = "scan" /\ node'.type = "Call")
         => LET name == Resolve(Visitor, node').api_name
            IN /\ issues' = issues \/ OneFinding
               /\ (Truthy(name) /\ name \in DOMAIN rule_map)
                     => /\ OneFinding
                        /\ NamesKey(Last(issues'), name)
                        /\ CarriesRule(Last(issues'), rule_map[name])]_vars

\* np.b.c() was recorded with the rule of b.c, the key c holding another rule
C6_Witness ==
    /\ pc = "scan"
    /\ node.type = "Call"
    /\ node.func = Chain(Name(s_np), <<s_b, s_c>>)
    /\ s_np \in numpy_aliases
    /\ {s_c, Dotted(<<s_b, s_c>>)} \subseteq DOMAIN rule_map
    /\ rule_map[s_c] # rule_map[Dotted(<<s_b, s_c>>)]
    /\ issues # <<>>
    /\ Last(issues).line = node.lineno
    /\ CarriesRule(Last(issues), rule_bc)
    /\ ~CarriesRule(Last(issues), rule_map[s_c])

(***************************************************************************)
(* C7 and C8: the rule table, under SpecRules                              *)
(***************************************************************************)
\* the canonical key of the i-th rule of the list
KeyOf(i) ==
    LET name == api_changes[i].api_name
    IN IF StartsWith(name, s_np \o Dot) THEN SubSeq(name, 4, Len(name)) ELSE name

\* the positions of the rules that generate key k, as canonical key or as suffix
Generators(k) == {i \in 1..Len(api_changes) : k \in Suffixes(KeyOf(i))}

\* the positions of the rules that generate key k as a suffix shorter than their key
SuffixGenerators(k) == {i \in 1..Len(api_changes) : k \in ProperSuffixes(KeyOf(i))}

\* C7 as claimed: for every rule list, the keys a.b.c, b.c and c of a rule with
\* canonical key a.b.c all return that rule.
C7_EverySuffixReturnsRule ==
    pc = "scan" =>
        \A i \in 1..Len(api_changes) : \A k \in Suffixes(KeyOf(i)) :
            k \in DOMAIN rule_map /\ rule_map[k] = api_changes[i]

\* C7 amended: for every rule list, the keys a.b.c, b.c and c of a rule with
\* canonical key a.b.c are all keys of the table, and each returns that rule when
\* no other rule of the list generates the same key.
C7_SuffixesAreKeys ==
    pc = "scan" =>
        \A i \in 1..Len(api_changes) : \A k \in Suffixes(KeyOf(i)) :
            /\ k \in DOMAIN rule_map
            /\ Generators(k) = {i} => rule_map[k] = api_changes[i]

\* the table of a list of several rules returns the rule a.b.c under a.b.c, b.c and c
C7_Witness ==
    /\ pc = "scan"
    /\ Len(api_changes) > 1
    /\ \E i \in 1..Len(api_changes) :
          /\ api_changes[i] = rule_abc
          /\ \A k \in {Dotted(<<s_a, s_b, s_c>>), Dotted(<<s_b, s_c>>), s_c} :
                k \in DOMAIN rule_map /\ rule_map[k] = rule_abc

\* the table after the first n rules of the list
TableAfter(n) == RuleMapOf(api_changes, n)

\* C8 as claimed: a key generated as a suffix by two rules maps to the earlier of
\* them, and a later rule never replaces the entry of an occupied key.
C8_FirstWriterWins ==
    pc = "scan" =>
        /\ \A k \in DOMAIN rule_map :
              Cardinality(SuffixGenerators(k)) >= 2
                 => rule_map[k] = api_changes[CHOOSE i \in SuffixGenerators(k) :
                                                 \A j \in SuffixGenerators(k) : i <= j]
        /\ \A n \in 1..Len(api_changes) : \A k \in DOMAIN TableAfter(n - 1) :
              TableAfter(n)[k] = TableAfter(n - 1)[k]

\* C8 amended: a key generated as a suffix by two rules, and the canonical key of
\* no rule, maps to the earlier of them; a later rule replaces the entry of an
\* occupied key only where the key is its own canonical key.
C8_FirstSuffixWins ==
    pc = "scan" =>
        /\ \A k \in DOMAIN rule_map :
              (/\ Cardinality(SuffixGenerators(k)) >= 2
               /\ \A i \in 1..Len(api_changes) : KeyOf(i) # k)
                 => rule_map[k] = api_changes[CHOOSE i \in SuffixGenerators(k) :
                                                 \A j \in SuffixGenerators(k) : i <= j]
        /\ \A n \in 1..Len(api_changes) : \A k \in DOMAIN TableAfter(n - 1) :
              TableAfter(n)[k] # TableAfter(n - 1)[k] => k = KeyOf(n)

\* two different rules generate the suffix c, no rule has the key c, and c
\* returns the earlier one
C8_Witness ==
    /\ pc = "scan"
    /\ \A i \in 1..Len(api_changes) : KeyOf(i) # s_c
    /\ \E i, j \in SuffixGenerators(s_c) :
          /\ i < j
          /\ api_changes[i] # api_changes[j]
          /\ rule_map[s_c] = api_changes[i]

(***************************************************************************)
(* C9                                                                      *)
(***************************************************************************)
\* C9: the call of an attribute chain whose root is not a bare identifier held in
\* numpy_aliases (another identifier, a call result, a subscript, a literal)
\* records no issue.
C9_UntrackedRoot ==
    [][(/\ pc = "scan"
        /\ node'.type = "Call"
        /\ node'.func.type = "Attribute"
        /\ ~(IsNameChain(node'.func) /\ ChainRoot(node'.func) \in numpy_aliases))
         => issues' = issues]_vars

\* self.np.c() was visited with np a tracked alias and c a key, and was not recorded
C9_Witness ==
    /\ pc = "scan"
    /\ node.type = "Call"
    /\ node.func = Chain(Name(s_self), <<s_np, s_c>>)
    /\ s_np \in numpy_aliases
    /\ s_c \in DOMAIN rule_map
    /\ \A i \in 1..Len(issues) : issues[i].line # node.lineno

(***************************************************************************)
(* C10                                                                     *)
(***************************************************************************)
\* the module path in the text logged by visit_ImportFrom ("from <module> import ...")
FromModuleOf(text) ==
    LET rest == SubSeq(text, 6, Len(text))
        end == CHOOSE j \in 1..Len(rest) : rest[j] = " " /\ \A k \in 1..(j - 1) : rest[k] # " "
    IN SubSeq(rest, 1, end - 1)

\* the lines of the imports visited so far that make the callee's root name
\* resolvable: import numpy [as X] for the root X of a chain, a from-import whose
\* module ends in X, or the from-import a bare name was recorded from
GoverningLines(func) ==
    {current_imports[i][1] : i \in
        {i \in 1..Len(current_imports) :
            LET text == current_imports[i][2]
            IN IF func.type = "Name"
               THEN /\ func.id \in DOMAIN numpy_from_imports
                    /\ StartsWith(text, s_from \o Space \o numpy_from_imports[func.id]
                                        \o Space \o s_import \o Space)
               ELSE /\ IsNameChain(func)
                    /\ \/ text \in PlainImportTexts(ChainRoot(func))
                       \/ /\ StartsWith(text, s_from \o Space)
                          /\ Last(Split(FromModuleOf(text))) = ChainRoot(func)}}

\* C10: a call records an issue only if an import that binds its root name stands
\* on an earlier line of the file.
C10_ImportPrecedesCall ==
    [][(pc = "scan" /\ Len(issues') > Len(issues))
         => \E l \in GoverningLines(node'.func) : l < node'.lineno]_vars

(***************************************************************************)
(* Vocabulary of the properties of the analyzer's life (SpecSession).      *)
(***************************************************************************)
\* the elements of a sequence
Range(q) == {q[i] : i \in 1..Len(q)}

\* the issues of a list that carry a file's path, in the order of the list
IssuesOf(found, path) ==
    LET Test(issue) == issue.file_path = path IN SelectSeq(found, Test)

\* an issue as _record_issue made it, without the 'code_snippet' a report generated
\* since may have added to it
Finding(issue) == [k \in DOMAIN issue \ {"code_snippet"} |-> issue[k]]

Findings(found) == [i \in 1..Len(found) |-> Finding(found[i])]

\* the concatenation of the sequences of a sequence
RECURSIVE Concat(_)
Concat(qs) == IF qs = <<>> THEN <<>> ELSE Head(qs) \o Concat(Tail(qs))

\* a visitor of the analyzer's rule table that has registered no import yet
EmptyBindings(path) ==
    [rule_map |-> rule_map, file_path |-> path,
     numpy_aliases |-> {}, numpy_from_imports |-> EmptyDict,
     current_imports |-> <<>>, issues |-> <<>>]

\* the traversal of a parsable file alone, from empty bindings
Alone(file) == Traverse(EmptyBindings(file.path), VisitEach(file.body))

\* an analyze_directory call on an existing target has returned and nothing has
\* been started since
Returned == pc = "ready" /\ returned.called /\ returned.target.exists /\ returned.target = target

(***************************************************************************)
(* C11                                                                     *)
(***************************************************************************)
\* the list a first analyze_directory call of a new analyzer with the rule table at
\* hand returns for a target: for each file in discovery order the issues
\* _analyze_file returns for it
RECURSIVE FirstRun(_)
FirstRun(files) ==
    IF files = <<>> THEN <<>>
    ELSE _analyze_file(rule_map, Head(files)).issues \o FirstRun(Tail(files))

\* C11: whenever analyze_directory returns for an existing target, the list it
\* returns is, element by element and in the same order, the list a first run on
\* that target returns, whatever calls and reports came before it: a second run on
\* the same target returns a list identical to the first one's, nothing of an earlier
\* run being left in it or changing it.  Successive calls on a missing target both
\* return the empty list.
C11_Idempotent ==
    [][/\ (pc = "files" /\ pc' = "ready")
         => /\ returned'.called
            /\ returned'.target = target
            /\ returned'.issues = FirstRun(target.files)
       /\ (/\ pc = "ready" /\ pc' = "ready" /\ ~target'.exists
           /\ returned.called /\ returned'.target = returned.target)
         => returned'.issues = returned.issues]_vars

\* a call on a target of two files had returned, and the loop of the next call on
\* the same target has gone through both files: the stored list, which is also the
\* list the caller holds from the call before, has the three issues of a first run
\* and is about to be returned
C11_Witness ==
    /\ pc = "files"
    /\ py_files = <<>>
    /\ returned.called
    /\ returned.target.exists
    /\ returned.target = target
    /\ Len(target.files) = 2
    /\ Len(detected_issues) = 3
    /\ detected_issues = FirstRun(target.files)
    /\ returned.issues = detected_issues

(***************************************************************************)
(* C12                                                                     *)
(***************************************************************************)
\* C12: the loop of analyze_directory over a target's files always ends in a
\* return, also when files of the target do not parse; the list returned holds the
\* issues file by file in discovery order, those of a file that parses and whose
\* traversal completes being exactly the issues of its traversal; a file that does
\* not parse has no issue in the list and no entry in file_imports.
C12_ParseFailureIsolated ==
    [][(pc = "files" /\ pc' = "ready")
         => /\ returned'.called
            /\ returned'.target = target
            /\ returned'.issues = detected_issues'
            /\ returned'.issues =
                  Concat([k \in 1..Len(target.files) |->
                             IssuesOf(returned'.issues, target.files[k].path)])
            /\ \A k \in 1..Len(target.files) :
                  LET file == target.files[k]
                      t == Traverse(NewVisitor(rule_map, file.path), VisitEach(file.body))
                  IN /\ (file.parses /\ ~t.raised)
                          => /\ IssuesOf(returned'.issues, file.path) = t.visitor.issues
                             /\ (t.visitor.current_imports # <<>>
                                   => /\ file.path \in DOMAIN file_imports'
                                      /\ file_imports'[file.path] = t.visitor.current_imports)
                     /\ ~file.parses
                          => /\ IssuesOf(returned'.issues, file.path) = <<>>
                             /\ file.path \notin DOMAIN file_imports']_vars

\* the call on a target whose first file does not parse and whose second is a.py
\* returned the issues of a.py
C12_Witness ==
    /\ Returned
    /\ returned.target.files = <<file_d, file_a>>
    /\ returned.issues # <<>>
    /\ IssuesOf(returned.issues, "a.py") = returned.issues
    /\ DOMAIN file_imports = {"a.py"}

(***************************************************************************)
(* C13                                                                     *)
(***************************************************************************)
\* the rules file is a list of records each having 'api_name'
WellFormedRules(doc) ==
    /\ doc.json = "array"
    /\ \A i \in 1..Len(doc.value) :
          doc.value[i].json = "object" /\ "api_name" \in DOMAIN doc.value[i].value

\* C13: once the constructor has run on a rules file that is not a list of records
\* each having 'api_name', it has raised: there is no analyzer, so no rule table
\* and no analysis.
C13_FailFast ==
    (pc # "new" /\ ~WellFormedRules(rules_file)) => pc = "error"

(***************************************************************************)
(* C14                                                                     *)
(***************************************************************************)
\* C14: every issue the traversal of a file of the target recorded, up to its end
\* or up to the error that stopped it, is in the list analyze_directory returns.
C14_NoFindingDropped ==
    Returned
      => \A k \in 1..Len(returned.target.files) :
            LET file == returned.target.files[k]
            IN file.parses
                 => Range(Alone(file).visitor.issues) \subseteq Range(Findings(returned.issues))

(***************************************************************************)
(* C15                                                                     *)
(***************************************************************************)
\* C15: in the list analyze_directory returns, the issues of each file of the
\* target are those of analysing that file alone from empty numpy_aliases and
\* numpy_from_imports, whatever files precede or follow it in the target.
C15_BindingsStayInFile ==
    Returned
      => \A k \in 1..Len(returned.target.files) :
            LET file == returned.target.files[k]
            IN IssuesOf(Findings(returned.issues), file.path) =
                  IF file.parses /\ ~Alone(file).raised
                  THEN Alone(file).visitor.issues ELSE <<>>

\* a.py, which imports numpy as np, was analysed before b.py, which calls np.c()
\* and c() without any import: a.py has issues, b.py none
C15_Witness ==
    /\ Returned
    /\ returned.target.files = <<file_a, file_b>>
    /\ IssuesOf(returned.issues, "a.py") # <<>>
    /\ IssuesOf(returned.issues, "b.py") = <<>>
    /\ s_c \in DOMAIN rule_map

(***************************************************************************)
(* C16                                                                     *)
(***************************************************************************)
\* C16: once the analyzer is constructed, no step of analyze_directory, of the
\* analysis of a file or of get_summary changes rule_map.
C16_RuleMapReadOnly ==
    [][(pc \in {"ready", "files"}) => rule_map' = rule_map]_vars

\* issues were found and summarised, and the rule table is the one built from the
\* rules
C16_Witness ==
    /\ Returned
    /\ returned.issues # <<>>
    /\ summary # NoSummary
    /\ rule_map # EmptyDict
    /\ rule_map = CreateRuleMap(api_changes)

(***************************************************************************)
(* C17                                                                     *)
(***************************************************************************)
\* the callee of a call as the source writes it: the identifier, or the dotted chain
Written(func) ==
    IF func.type = "Name" THEN func.id
    ELSE Dotted(<<ChainRoot(func)>> \o ChainAttrs(func))

\* C17: the actual_call of the issue a call records is the callee as written: X.f
\* for X.f(), the whole chain for X.sub.f(), the identifier for fn().
C17_ActualCallAsWritten ==
    [][(pc = "scan" /\ node'.type = "Call" /\ Len(issues') = Len(issues) + 1)
         => Last(issues').actual_call = Written(node'.func)]_vars

(***************************************************************************)
(* C18                                                                     *)
(***************************************************************************)
\* the fields an issue takes from its rule
RuleFields == {"change_type", "severity", "description", "suggestion", "since_version"}

\* C18: the issue a call records has the line and column of the call node, and each
\* of change_type, severity, description, suggestion and since_version that the rule
\* stored under the matched key has is the issue's field of that name.
C18_FieldsOfMatchedRule ==
    [][(pc = "scan" /\ node'.type = "Call" /\ Len(issues') = Len(issues) + 1)
         => LET key == MatchKey(rule_map, Resolve(Visitor, node').api_name)
            IN /\ key \in DOMAIN rule_map
               /\ Last(issues').line = node'.lineno
               /\ Last(issues').column = node'.col_offset
               /\ \A field \in RuleFields \cap DOMAIN rule_map[key] :
                     Last(issues')[field] = rule_map[key][field]]_vars

\* np.b.c(), indented in a def body, was recorded at its line and column with the
\* fields of the rule of np.b.c, the table holding another rule under c
C18_Witness ==
    /\ pc = "scan"
    /\ node.type = "Call"
    /\ node.func = Chain(Name(s_np), <<s_b, s_c>>)
    /\ node.col_offset = 4
    /\ issues # <<>>
    /\ Last(issues).line = node.lineno
    /\ Last(issues).column = 4
    /\ Dotted(<<s_b, s_c>>) \in DOMAIN rule_map
    /\ rule_map[Dotted(<<s_b, s_c>>)] = rule_bc
    /\ rule_map[s_c] = rule_c
    /\ Last(issues).change_type = rule_bc.change_type

(***************************************************************************)
(* C19                                                                     *)
(***************************************************************************)
\* C19: during a traversal no visit removes a name from numpy_aliases or from the
\* names numpy_from_imports records, and a call X.f() whose root X is in
\* numpy_aliases records an issue when f is a key, whatever imports or assignments
\* rebinding X were traversed since X was registered.
C19_BindingsOnlyGrow ==
    [][pc = "scan"
         => /\ numpy_aliases \subseteq numpy_aliases'
            /\ DOMAIN numpy_from_imports \subseteq DOMAIN numpy_from_imports'
            /\ (AliasCallStep /\ ChainRoot(node'.func) \in numpy_aliases
                  /\ Dotted(ChainAttrs(node'.func)) \in DOMAIN rule_map)
                 => OneFinding]_vars

\* the np.c() that follows "import os as np" and "np = 0" in the body of an if
\* inside a def was recorded, np having been registered before the def
C19_Witness ==
    /\ pc = "scan"
    /\ node.type = "Call"
    /\ node \in {s[1].body[1].body[3].value : s \in {RebindingDef(l) : l \in 1..lineno}}
    /\ s_np \in numpy_aliases
    /\ issues # <<>>
    /\ Last(issues).line = node.lineno
    /\ Last(issues).column = 8

(***************************************************************************)
(* C20                                                                     *)
(***************************************************************************)
\* what visit_ImportFrom logs for "from numpy import *"
StarImportText ==
    s_from \o Space \o s_numpy \o Space \o s_import \o Space \o s_star

\* every numpy import the traversal has logged is "from numpy import *"
OnlyStarImport ==
    /\ current_imports # <<>>
    /\ \A i \in 1..Len(current_imports) : current_imports[i][2] = StarImportText

\* C20: while the only numpy imports traversed are "from numpy import *", the call
\* of a bare name fn() records no issue, also when fn is a key of the rule table.
C20_StarNotExpanded ==
    [][(NameCallStep /\ OnlyStarImport) => issues' = issues]_vars

\* c() was visited after "from numpy import *" alone, c being a key: no issue
C20_Witness ==
    /\ pc = "scan"
    /\ node.type = "Call"
    /\ node.func = Name(s_c)
    /\ s_c \in DOMAIN rule_map
    /\ current_imports = <<<<1, StarImportText>>>>
    /\ DOMAIN numpy_from_imports = {s_star}
    /\ issues = <<>>

(***************************************************************************)
(* C21                                                                     *)
(***************************************************************************)
\* the number of issues of a list whose field has the value x
RECURSIVE CountOf(_, _, _)
CountOf(found, field, x) ==
    IF found = <<>> THEN 0
    ELSE (IF Head(found)[field] = x THEN 1 ELSE 0) + CountOf(Tail(found), field, x)

\* the sum of the values of a map of counts
RECURSIVE Total(_)
Total(counts) ==
    IF DOMAIN counts = {} THEN 0
    ELSE LET x == CHOOSE y \in DOMAIN counts : TRUE
         IN counts[x] + Total([y \in DOMAIN counts \ {x} |-> counts[y]])

\* C21: whatever calls of analyze_directory came before, the summary get_summary
\* returns has total_issues equal to the length of detected_issues, counts under
\* exactly the change types (severities) that occur in detected_issues, each equal
\* to the number of issues with that change type (severity), and both maps sum to
\* total_issues.
C21_SummaryConsistent ==
    summary # NoSummary
      => LET s == summary.value
         IN /\ s.total_issues = Len(detected_issues)
            /\ DOMAIN s.issues_by_type = {x.change_type : x \in Range(detected_issues)}
            /\ DOMAIN s.issues_by_severity = {x.severity : x \in Range(detected_issues)}
            /\ \A t \in DOMAIN s.issues_by_type :
                  s.issues_by_type[t] = CountOf(detected_issues, "change_type", t)
            /\ \A t \in DOMAIN s.issues_by_severity :
                  s.issues_by_severity[t] = CountOf(detected_issues, "severity", t)
            /\ Total(s.issues_by_type) = s.total_issues
            /\ Total(s.issues_by_severity) = s.total_issues

\* a summary of three issues, two of them deprecated, found in two files
C21_Witness ==
    /\ summary # NoSummary
    /\ Len(detected_issues) = 3
    /\ summary.value.total_issues = 3
    /\ DOMAIN summary.value.issues_by_type = {"removed", "deprecated"}
    /\ summary.value.issues_by_type["deprecated"] = 2
    /\ Cardinality(summary.value.files_with_issues) = 2

(***************************************************************************)
(* C22                                                                     *)
(***************************************************************************)
\* C22: in every interleaving of the threads, a step of one thread changes neither
\* the file, visitor, pending nodes or result of another thread nor the rule table,
\* and what _analyze_file returns to a thread is what the analysis of its file alone
\* returns.
C22_ThreadsShareNothing ==
    [][pc = "workers"
         => \A w \in DOMAIN workers :
               /\ workers'[w] # workers[w]
                    => /\ \A u \in DOMAIN workers \ {w} : workers'[u] = workers[u]
                       /\ rule_map' = rule_map
               /\ workers'[w].state = "done"
                    => LET file == workers'[w].file
                           ok == file.parses /\ ~Alone(file).raised
                       IN /\ workers'[w].issues =
                                IF ok THEN Alone(file).visitor.issues ELSE <<>>
                          /\ workers'[w].imports =
                                IF ok THEN Alone(file).visitor.current_imports ELSE <<>>]_vars

\* both threads are in the middle of their traversals: the first has imported numpy
\* as np in a.py and recorded np.c(), the second has visited np.c() of b.py, which
\* has no import, and recorded nothing
C22_Witness ==
    /\ pc = "workers"
    /\ workers[1].state = "running"
    /\ workers[1].file = file_a
    /\ workers[1].visitor.numpy_aliases = {s_np}
    /\ Len(workers[1].visitor.issues) = 1
    /\ workers[1].todo # <<>>
    /\ workers[2].state = "running"
    /\ workers[2].file = file_b
    /\ Len(workers[2].todo) = 1
    /\ workers[2].visitor.issues = <<>>

(***************************************************************************)
(* C23                                                                     *)
(***************************************************************************)
\* the position of issue x is not after the position of issue y
NotAfter(x, y) == x.line < y.line \/ (x.line = y.line /\ x.column <= y.column)

\* C23: the issues of a file are recorded in non-decreasing (line, column) order of
\* the calls they were recorded at.
C23_FindingsInSourceOrder ==
    pc = "scan" => \A i, j \in DOMAIN issues : i < j => NotAfter(issues[i], issues[j])

(***************************************************************************)
(* C24, under SpecRules                                                    *)
(***************************************************************************)
\* the position of the last rule of the list with the canonical key k
LastWithKey(k) ==
    CHOOSE i \in 1..Len(api_changes) :
        KeyOf(i) = k /\ \A j \in 1..Len(api_changes) : KeyOf(j) = k => j <= i

\* C24: every key that is the canonical key of a rule of the list returns the last
\* rule of the list with that canonical key: the n-th rule is entered under its
\* canonical key whatever the table held there, an earlier rule's suffix entry
\* included, and changes no other entry of the table.
C24_LastCanonicalWins ==
    pc = "scan" =>
        /\ \A i \in 1..Len(api_changes) :
              /\ KeyOf(i) \in DOMAIN rule_map
              /\ rule_map[KeyOf(i)] = api_changes[LastWithKey(KeyOf(i))]
        /\ \A n \in 1..Len(api_changes) :
              /\ TableAfter(n)[KeyOf(n)] = api_changes[n]
              /\ \A k \in DOMAIN TableAfter(n - 1) \ {KeyOf(n)} :
                    TableAfter(n)[k] = TableAfter(n - 1)[k]

\* the key c is first the suffix entry of np.b.c, then taken over by the rule np.c
\* and then by the rule c, which the table returns
C24_Witness ==
    /\ pc = "scan"
    /\ api_changes = <<rule_bc, rule_c, rule_c_bare>>
    /\ TableAfter(1)[s_c] = rule_bc
    /\ TableAfter(2)[s_c] = rule_c
    /\ rule_map[s_c] = rule_c_bare
    /\ rule_map[Dotted(<<s_b, s_c>>)] = rule_bc

(***************************************************************************)
(* C25                                                                     *)
(***************************************************************************)
\* the step visits a from-import of a module whose path contains 'numpy'
FromImportStep ==
    /\ pc = "scan"
    /\ node'.type = "ImportFrom"
    /\ Truthy(node'.module)
    /\ Contains(node'.module, s_numpy)

\* C25: a from-import `from numpy.sub import f as g` records both f and g with the
\* origin numpy.sub, and a call g() of a name recorded with the origin numpy.sub
\* records exactly one issue when sub.g or g is a key of the rule table and none
\* otherwise, whatever the table holds for sub.f and f.
C25_AliasedFromImport ==
    [][/\ FromImportStep
          => \A i \in 1..Len(node'.names) :
                Truthy(node'.names[i].asname)
                   => /\ node'.names[i].name \in DOMAIN numpy_from_imports'
                      /\ node'.names[i].asname \in DOMAIN numpy_from_imports'
                      /\ numpy_from_imports'[node'.names[i].name] = node'.module
                      /\ numpy_from_imports'[node'.names[i].asname] = node'.module
       /\ (/\ NameCallStep
           /\ node'.func.id \in DOMAIN numpy_from_imports
           /\ Len(Split(numpy_from_imports[node'.func.id])) = 2
           /\ Split(numpy_from_imports[node'.func.id])[1] = s_numpy)
          => LET g == node'.func.id
                 sub == Split(numpy_from_imports[g])[2]
             IN IF sub \o Dot \o g \in DOMAIN rule_map \/ g \in DOMAIN rule_map
                THEN OneFinding
                ELSE issues' = issues]_vars

\* after `from numpy.b import g as c` alone, with a table that has the key b.c and
\* neither b.g nor g, the call c() has recorded an issue
C25_Witness ==
    /\ pc = "scan"
    /\ node.type = "Call"
    /\ node.func = Name(s_c)
    /\ Len(current_imports) = 1
    /\ numpy_from_imports = DictSet(DictSet(EmptyDict, s_g, Dotted(<<s_numpy, s_b>>)),
                                    s_c, Dotted(<<s_numpy, s_b>>))
    /\ Dotted(<<s_b, s_c>>) \in DOMAIN rule_map
    /\ Dotted(<<s_b, s_g>>) \notin DOMAIN rule_map
    /\ s_g \notin DOMAIN rule_map
    /\ Len(issues) = 1
    /\ issues[1].line = node.lineno

(***************************************************************************)
(* C26                                                                     *)
(***************************************************************************)
\* C26: a from-import `from numpy import sub` adds numpy and nothing else to
\* numpy_aliases and records sub in numpy_from_imports only; a call sub.fn() on a
\* name recorded that way which is not in numpy_aliases records no issue, whatever
\* the rule table.
C26_ImportedSubmoduleUnresolved ==
    [][/\ (FromImportStep /\ node'.module = s_numpy)
          => /\ numpy_aliases' = numpy_aliases \cup {s_numpy}
             /\ \A i \in 1..Len(node'.names) :
                   /\ node'.names[i].name \in DOMAIN numpy_from_imports'
                   /\ numpy_from_imports'[node'.names[i].name] = s_numpy
       /\ (/\ AliasCallStep
           /\ ChainRoot(node'.func) \in DOMAIN numpy_from_imports
           /\ numpy_from_imports[ChainRoot(node'.func)] = s_numpy
           /\ ChainRoot(node'.func) \notin numpy_aliases)
          => issues' = issues]_vars

\* after `from numpy import b` alone, the call b.c() has recorded nothing although
\* c is a key of the rule table
C26_Witness ==
    /\ pc = "scan"
    /\ node.type = "Call"
    /\ node.func = Chain(Name(s_b), <<s_c>>)
    /\ numpy_aliases = {s_numpy}
    /\ numpy_from_imports = DictSet(EmptyDict, s_b, s_numpy)
    /\ Len(current_imports) = 1
    /\ s_c \in DOMAIN rule_map
    /\ issues = <<>>

(***************************************************************************)
(* C27                                                                     *)
(***************************************************************************)
\* C27: a plain import none of whose module names is exactly numpy (import
\* numpy.sub, import numpy.sub as x) leaves numpy_aliases and the import log as they
\* were, and while both are empty the calls numpy.sub.fn() and x.fn() record no
\* issue.
C27_SubmoduleImportIgnored ==
    [][/\ (/\ pc = "scan"
           /\ node'.type = "Import"
           /\ \A i \in 1..Len(node'.names) : node'.names[i].name # s_numpy)
          => /\ numpy_aliases' = numpy_aliases
             /\ current_imports' = current_imports
             /\ numpy_from_imports' = numpy_from_imports
       /\ (AliasCallStep /\ numpy_aliases = {} /\ current_imports = <<>>)
          => issues' = issues]_vars

\* `import numpy.b as np` has been visited as the second statement, after a first one
\* that registered nothing, and has registered nothing
C27_Witness ==
    /\ pc = "scan"
    /\ node.type = "Import"
    /\ node.names = <<Alias(Dotted(<<s_numpy, s_b>>), s_np)>>
    /\ body_index = 2
    /\ numpy_aliases = {}
    /\ current_imports = <<>>
    /\ s_c \in DOMAIN rule_map
    /\ issues = <<>>

(***************************************************************************)
(* C28                                                                     *)
(***************************************************************************)
\* C28: analyze_directory on a path that does not exist returns the empty list and
\* leaves detected_issues and file_imports as they were, so that a get_summary after
\* it reports what they held before; on a path that exists both are empty when the
\* loop starts with all the files of the path still to process.
C28_MissingPathKeepsResults ==
    [][/\ (pc = "ready" /\ pc' = "ready" /\ returned'.called /\ ~target'.exists)
          => /\ returned'.target = target'
             /\ returned'.issues = <<>>
             /\ detected_issues' = detected_issues
             /\ file_imports' = file_imports
             /\ summary'.taken
                  => summary'.value = Summary(detected_issues, file_imports)
       /\ (pc = "ready" /\ pc' = "files")
          => /\ target'.exists
             /\ detected_issues' = <<>>
             /\ file_imports' = EmptyDict
             /\ py_files' = target'.files]_vars

\* after a run that found issues, analyze_directory on a missing path has returned
\* the empty list, and the summary taken after it counts the issues and files of
\* the run before
C28_Witness ==
    /\ pc = "ready"
    /\ returned.called
    /\ ~target.exists
    /\ returned.target = target
    /\ returned.issues = <<>>
    /\ Len(detected_issues) = 3
    /\ summary.taken
    /\ summary.value.total_issues = 3
    /\ summary.value.total_files_analyzed = 2

(***************************************************************************)
(* C29                                                                     *)
(***************************************************************************)
\* C29: a summary taken after analyze_directory has returned for an existing target
\* reports as total_files_analyzed the number of files the loop of that call went
\* through, the files without a numpy import and those that do not parse included.
C29_CountsEveryFile ==
    (Returned /\ summary.taken)
        => summary.value.total_files_analyzed = Len(find_py_files(target))

(***************************************************************************)
(* C30                                                                     *)
(***************************************************************************)
\* the statement `import numpy`, `import numpy as X`, or a from-import of a module
\* whose path contains the text numpy
LibraryImport(n) ==
    \/ n.type = "Import" /\ \E i \in 1..Len(n.names) : n.names[i].name = s_numpy
    \/ n.type = "ImportFrom" /\ Truthy(n.module) /\ Contains(n.module, s_numpy)

\* C30: as long as the traversal of a file has met no `import numpy [as X]` and no
\* from-import of a module whose path contains numpy, the visitor has recorded no
\* issue and no import and tracks no name, whatever the rule table and whatever
\* the calls and other imports it has visited.
C30_NothingWithoutImport ==
    [][(/\ pc = "scan"
        /\ numpy_aliases = {}
        /\ numpy_from_imports = EmptyDict
        /\ current_imports = <<>>
        /\ issues = <<>>
        /\ ~LibraryImport(node'))
         => /\ issues' = <<>>
            /\ current_imports' = <<>>
            /\ numpy_aliases' = {}
            /\ numpy_from_imports' = EmptyDict]_vars

\* the two statements of a file, neither of them an import of numpy and the second
\* the call c(), have been visited with c a key of the rule table; nothing is
\* recorded
C30_Witness ==
    /\ pc = "scan"
    /\ body_index = 2
    /\ node.type = "Call"
    /\ node.func = Name(s_c)
    /\ todo = <<>>
    /\ s_c \in DOMAIN rule_map
    /\ numpy_aliases = {}
    /\ numpy_from_imports = EmptyDict
    /\ current_imports = <<>>
    /\ issues = <<>>

====
